---- MODULE Spec2Model ----
(***************************************************************************)
(* fs-browser: the filesystem HTTP gateway (plugin/fs-handlers.js) and its *)
(* two entry points (the Vite middleware and the withfs server).           *)
(*                                                                         *)
(* A JavaScript string that the code inspects character by character (a    *)
(* path, a payload) is a sequence of one-character strings; a string that  *)
(* the code only compares or looks up (a method, a message, a content-type *)
(* token) is a TLA+ string.                                                *)
(***************************************************************************)
EXTENDS Integers, Sequences, FiniteSets, TLC

VARIABLES
  gateway, \* the running gateway: its entry point, confinement root and routes
  fs,      \* the disk: [dirs: set of absolute paths, files: path -> bytes]
  reqs,    \* request id -> the request's record (input, position, response)
  probe    \* a direct call of the path resolver: its argument and results

vars == <<gateway, fs, reqs, probe>>

----------------------------------------------------------------------------
(* Bounds of the model                                                     *)

MaxSegs == 3        \* segments of a candidate path handed to the resolver
MaxRequests == 2    \* requests issued in one behaviour
MaxSteps == 3       \* requests issued one after the other in one behaviour
MaxModules == 2     \* calls of the client's configure in one behaviour
MaxFetches == 2     \* requests the client sends in one behaviour

----------------------------------------------------------------------------
(* Strings                                                                 *)

SLASH == <<"/">>

StartsWith(s, pre) ==
  /\ Len(pre) <= Len(s)
  /\ SubSeq(s, 1, Len(pre)) = pre

\* String.prototype.slice(1)
Slice1(s) == SubSeq(s, 2, Len(s))

\* index of the first "/" of s at or after i, or Len(s)+1
RECURSIVE NextSlash(_, _)
NextSlash(s, i) ==
  IF i > Len(s) THEN Len(s) + 1
  ELSE IF s[i] = "/" THEN i ELSE NextSlash(s, i + 1)

\* s.split('/') from position i on
RECURSIVE SplitFrom(_, _)
SplitFrom(s, i) ==
  LET j == NextSlash(s, i) IN
  IF j > Len(s) THEN <<SubSeq(s, i, Len(s))>>
  ELSE <<SubSeq(s, i, j - 1)>> \o SplitFrom(s, j + 1)

SplitSlash(s) == SplitFrom(s, 1)

\* segs.join('/')
RECURSIVE JoinSlash(_)
JoinSlash(segs) ==
  IF segs = <<>> THEN <<>>
  ELSE IF Len(segs) = 1 THEN segs[1]
  ELSE segs[1] \o SLASH \o JoinSlash(Tail(segs))

----------------------------------------------------------------------------
(* path.resolve (Node, posix) for two arguments, the first one absolute    *)

DOT == <<".">>
DOTDOT == <<".", ".">>

\* normalizeString of an absolute path: "." and empty segments are dropped,
\* ".." removes the segment before it and is dropped at the root
RECURSIVE NormalizeSegs(_, _)
NormalizeSegs(segs, acc) ==
  IF segs = <<>> THEN acc
  ELSE LET h == Head(segs) IN
       IF h = <<>> \/ h = DOT THEN NormalizeSegs(Tail(segs), acc)
       ELSE IF h = DOTDOT
            THEN NormalizeSegs(Tail(segs),
                               IF acc = <<>> THEN acc
                               ELSE SubSeq(acc, 1, Len(acc) - 1))
            ELSE NormalizeSegs(Tail(segs), Append(acc, h))

\* the absolute, normalised path; "/" for the filesystem root
PathResolve(base, p) ==
  LET joined == IF p = <<>> THEN base
                ELSE IF Head(p) = "/" THEN p
                ELSE base \o SLASH \o p
      segs == NormalizeSegs(SplitSlash(joined), <<>>)
  IN  SLASH \o JoinSlash(segs)

----------------------------------------------------------------------------
(* The confinement root and the path resolver                              *)

\* BASE_DIR = path.resolve(..., baseDir): the directory /s/d
BASE_DIR == <<"/", "s", "/", "d">>

\* JavaScript values: a tag t and, for all but undefined and null, a value v
JUndef == [t |-> "undef"]
JNull == [t |-> "null"]
JStr(s) == [t |-> "str", v |-> s]
JNum(n) == [t |-> "num", v |-> n]
JBool(b) == [t |-> "bool", v |-> b]
JArr(a) == [t |-> "arr", v |-> a]
JObj(kvs) == [t |-> "obj", v |-> kvs]

OUTSIDE == "Invalid path: outside base directory"
TYPE_ERROR == "TypeError"

\* a resolver that accepts whatever path.resolve gives
ResolvePathNoCheck(baseDir, filePath) ==
  IF filePath.t # "str" THEN [ok |-> FALSE, error |-> TYPE_ERROR]
  ELSE LET normalizedPath == IF StartsWith(filePath.v, SLASH)
                             THEN Slice1(filePath.v) ELSE filePath.v
       IN [ok |-> TRUE, path |-> PathResolve(baseDir, normalizedPath)]

\* the resolver without the removal of the leading slash
ResolvePathKeepSlash(baseDir, filePath) ==
  IF filePath.t # "str" THEN [ok |-> FALSE, error |-> TYPE_ERROR]
  ELSE LET resolved == PathResolve(baseDir, filePath.v) IN
       IF ~StartsWith(resolved, baseDir)
       THEN [ok |-> FALSE, error |-> OUTSIDE]
       ELSE [ok |-> TRUE, path |-> resolved]

\* a resolver that returns a path that already starts with the root as it is
ResolvePathAbsolute(baseDir, filePath) ==
  IF filePath.t # "str" THEN [ok |-> FALSE, error |-> TYPE_ERROR]
  ELSE IF StartsWith(filePath.v, baseDir) THEN [ok |-> TRUE, path |-> filePath.v]
  ELSE ResolvePathKeepSlash(baseDir, JStr(IF StartsWith(filePath.v, SLASH)
                                          THEN Slice1(filePath.v) ELSE filePath.v))

\* createPathResolver(baseDir)(filePath): the resolved path, or the error
\* thrown. filePath.startsWith throws a TypeError when filePath is no string.
ResolvePath(baseDir, filePath) ==
  IF filePath.t # "str" THEN [ok |-> FALSE, error |-> TYPE_ERROR]
  ELSE LET normalizedPath == IF StartsWith(filePath.v, SLASH)
                             THEN Slice1(filePath.v) ELSE filePath.v
           resolved == PathResolve(baseDir, normalizedPath)
       IN IF ~StartsWith(resolved, baseDir)
          THEN [ok |-> FALSE, error |-> OUTSIDE]
          ELSE [ok |-> TRUE, path |-> resolved]

\* p is the root or a descendant of it, segment by segment
Within(root, p) ==
  /\ StartsWith(p, root)
  /\ \/ Len(p) = Len(root)
     \/ p[Len(root) + 1] = "/"

----------------------------------------------------------------------------
(* Candidate paths                                                         *)

PathSegs == {<<>>, DOT, DOTDOT, <<"a">>, <<"b">>, <<"d">>, <<"d", "x">>, <<"s">>}

SegSeqs == UNION {[1..n -> PathSegs] : n \in 1..MaxSegs}

\* relative candidates, and the same with a leading "/"
RelPaths == {JoinSlash(ss) : ss \in SegSeqs}
CandidatePaths == RelPaths \cup {SLASH \o p : p \in RelPaths}

----------------------------------------------------------------------------
(* Characters and bytes                                                    *)

\* the printable ASCII characters, in code order from 32 (space) to 126 (~);
\* <grave> stands for the grave accent (code 96)
Ascii == <<
  " ", "!", "\"", "#", "$", "%", "&", "'", "(", ")", "*", "+", ",", "-",
  ".", "/", "0", "1", "2", "3", "4", "5", "6", "7", "8", "9", ":", ";",
  "<", "=", ">", "?", "@", "A", "B", "C", "D", "E", "F", "G", "H", "I",
  "J", "K", "L", "M", "N", "O", "P", "Q", "R", "S", "T", "U", "V", "W",
  "X", "Y", "Z", "[", "\\", "]", "^", "_", "<grave>", "a", "b", "c", "d", "e",
  "f", "g", "h", "i", "j", "k", "l", "m", "n", "o", "p", "q", "r", "s",
  "t", "u", "v", "w", "x", "y", "z", "{", "|", "}", "~"
>>

NL == "\n"
FFFD == "<U+FFFD>"   \* the replacement character an invalid UTF-8 byte decodes to

CodeOf == [c \in {Ascii[i] : i \in 1..Len(Ascii)} \cup {NL} |->
             IF c = NL THEN 10 ELSE 31 + (CHOOSE i \in 1..Len(Ascii) : Ascii[i] = c)]

\* Buffer.from(str, 'utf8') for a string of ASCII characters: one byte each
Utf8Encode(str) == [i \in 1..Len(str) |-> CodeOf[str[i]]]

\* buf.toString('utf8'): an ASCII byte is its character, a byte that starts
\* no valid sequence (here: every byte above 127) is U+FFFD
Utf8DecodeByte(b) ==
  IF b = 10 THEN NL
  ELSE IF b >= 32 /\ b <= 126 THEN Ascii[b - 31]
  ELSE FFFD

Utf8Decode(bytes) == [i \in 1..Len(bytes) |-> Utf8DecodeByte(bytes[i])]

IsDigit(c) == CodeOf[c] >= 48 /\ CodeOf[c] <= 57

\* value of a hexadecimal digit, -1 for any other character
HexVal(c) ==
  LET k == CodeOf[c] IN
  IF k >= 48 /\ k <= 57 THEN k - 48
  ELSE IF k >= 97 /\ k <= 102 THEN k - 87
  ELSE IF k >= 65 /\ k <= 70 THEN k - 55
  ELSE -1

\* Buffer.from(str, 'hex'): pairs of digits, up to the first pair that is
\* not two hexadecimal digits; an odd last character is dropped
RECURSIVE HexDecode(_)
HexDecode(str) ==
  IF Len(str) < 2 THEN <<>>
  ELSE IF HexVal(str[1]) < 0 \/ HexVal(str[2]) < 0 THEN <<>>
  ELSE <<16 * HexVal(str[1]) + HexVal(str[2])>> \o HexDecode(SubSeq(str, 3, Len(str)))

\* value of a base64 digit, -1 for any other character
B64Val(c) ==
  LET k == CodeOf[c] IN
  IF k >= 65 /\ k <= 90 THEN k - 65
  ELSE IF k >= 97 /\ k <= 122 THEN k - 71
  ELSE IF k >= 48 /\ k <= 57 THEN k + 4
  ELSE IF c = "+" \/ c = "-" THEN 62
  ELSE IF c = "/" \/ c = "_" THEN 63
  ELSE -1

RECURSIVE B64Sextets(_)
B64Sextets(str) ==
  IF str = <<>> THEN <<>>
  ELSE IF Head(str) = "=" THEN <<>>
  ELSE IF B64Val(Head(str)) < 0 THEN B64Sextets(Tail(str))
  ELSE <<B64Val(Head(str))>> \o B64Sextets(Tail(str))

RECURSIVE B64Bytes(_)
B64Bytes(sx) ==
  IF Len(sx) >= 4
  THEN LET n == sx[1] * 262144 + sx[2] * 4096 + sx[3] * 64 + sx[4] IN
       <<n \div 65536, (n \div 256) % 256, n % 256>> \o B64Bytes(SubSeq(sx, 5, Len(sx)))
  ELSE IF Len(sx) = 3
  THEN LET n == sx[1] * 4096 + sx[2] * 64 + sx[3] IN
       <<n \div 1024, (n \div 4) % 256>>
  ELSE IF Len(sx) = 2
  THEN <<(sx[1] * 64 + sx[2]) \div 16>>
  ELSE <<>>

\* Buffer.from(str, 'base64'): digits up to the padding, other characters skipped
B64Decode(str) == B64Bytes(B64Sextets(str))

UNKNOWN_ENCODING == "Unknown encoding"

ENC_UTF8 == <<"u", "t", "f", "8">>
ENC_HEX == <<"h", "e", "x">>
ENC_BASE64 == <<"b", "a", "s", "e", "6", "4">>

\* Buffer.from(str, encoding) for a string str; encoding is a JavaScript value
BufferFromString(str, encoding) ==
  IF encoding.t # "str" \/ encoding.v = <<>> THEN [ok |-> TRUE, bytes |-> Utf8Encode(str)]
  ELSE IF encoding.v = ENC_UTF8 THEN [ok |-> TRUE, bytes |-> Utf8Encode(str)]
  ELSE IF encoding.v = ENC_HEX THEN [ok |-> TRUE, bytes |-> HexDecode(str)]
  ELSE IF encoding.v = ENC_BASE64 THEN [ok |-> TRUE, bytes |-> B64Decode(str)]
  ELSE [ok |-> FALSE, error |-> UNKNOWN_ENCODING]

----------------------------------------------------------------------------
(* JavaScript values: String(), JSON.stringify, JSON.parse, Buffer.from    *)

S_true == <<"t", "r", "u", "e">>
S_false == <<"f", "a", "l", "s", "e">>
S_null == <<"n", "u", "l", "l">>
S_undefined == <<"u", "n", "d", "e", "f", "i", "n", "e", "d">>
S_objectObject == <<"[", "o", "b", "j", "e", "c", "t", " ", "O", "b", "j", "e", "c", "t", "]">>
K_path == <<"p", "a", "t", "h">>
K_data == <<"d", "a", "t", "a">>
K_type == <<"t", "y", "p", "e">>
K_encoding == <<"e", "n", "c", "o", "d", "i", "n", "g">>
K_src == <<"s", "r", "c">>
K_dest == <<"d", "e", "s", "t">>
K_flags == <<"f", "l", "a", "g", "s">>
K_recursive == <<"r", "e", "c", "u", "r", "s", "i", "v", "e">>
K_force == <<"f", "o", "r", "c", "e">>
K_oldPath == <<"o", "l", "d", "P", "a", "t", "h">>
K_newPath == <<"n", "e", "w", "P", "a", "t", "h">>
S_text == <<"t", "e", "x", "t">>
S_json == <<"j", "s", "o", "n">>
S_buffer == <<"b", "u", "f", "f", "e", "r">>

\* the decimal digits of a natural number
RECURSIVE NumStr(_)
NumStr(n) ==
  IF n < 10 THEN <<Ascii[17 + n]>>
  ELSE NumStr(n \div 10) \o <<Ascii[17 + (n % 10)]>>

\* strs joined with sep between them
RECURSIVE JoinWith(_, _)
JoinWith(strs, sep) ==
  IF strs = <<>> THEN <<>>
  ELSE IF Len(strs) = 1 THEN strs[1]
  ELSE strs[1] \o sep \o JoinWith(Tail(strs), sep)

\* String(v)
RECURSIVE JsString(_)
JsString(v) ==
  CASE v.t = "str" -> v.v
    [] v.t = "num" -> NumStr(v.v)
    [] v.t = "bool" -> IF v.v THEN S_true ELSE S_false
    [] v.t = "null" -> S_null
    [] v.t = "undef" -> S_undefined
    [] v.t = "arr" ->
         JoinWith([i \in 1..Len(v.v) |->
                     IF v.v[i].t \in {"null", "undef"} THEN <<>> ELSE JsString(v.v[i])],
                  <<",">>)
    [] v.t = "obj" -> S_objectObject

QUOTE == <<"\"">>

\* JSON.stringify(v) when pretty is FALSE, JSON.stringify(v, null, 2) when it
\* is TRUE; ind is the indentation of the enclosing line. Strings hold no
\* character that needs an escape.
RECURSIVE Stringify(_, _, _)
Stringify(v, pretty, ind) ==
  LET inner == ind \o <<" ", " ">>
      open(b) == IF pretty THEN <<b, NL>> \o inner ELSE <<b>>
      sep == IF pretty THEN <<",", NL>> \o inner ELSE <<",">>
      close(b) == IF pretty THEN <<NL>> \o ind \o <<b>> ELSE <<b>>
      colon == IF pretty THEN <<":", " ">> ELSE <<":">>
  IN
  CASE v.t = "str" -> QUOTE \o v.v \o QUOTE
    [] v.t = "num" -> NumStr(v.v)
    [] v.t = "bool" -> IF v.v THEN S_true ELSE S_false
    [] v.t = "null" -> S_null
    [] v.t = "arr" ->
         IF v.v = <<>> THEN <<"[", "]">>
         ELSE open("[")
              \o JoinWith([i \in 1..Len(v.v) |-> Stringify(v.v[i], pretty, inner)], sep)
              \o close("]")
    [] v.t = "obj" ->
         IF v.v = <<>> THEN <<"{", "}">>
         ELSE open("{")
              \o JoinWith([i \in 1..Len(v.v) |->
                             QUOTE \o v.v[i].k \o QUOTE \o colon
                             \o Stringify(v.v[i].v, pretty, inner)], sep)
              \o close("}")

\* obj[key]: undefined for a missing key and for a value with no such property
Get(obj, key) ==
  IF obj.t # "obj" THEN JUndef
  ELSE IF \E i \in 1..Len(obj.v) : obj.v[i].k = key
       THEN obj.v[CHOOSE i \in 1..Len(obj.v) :
                    /\ obj.v[i].k = key
                    /\ \A j \in (i + 1)..Len(obj.v) : obj.v[j].k # key].v
       ELSE JUndef

\* const {key = dflt} = obj: the default replaces undefined only
GetOr(obj, key, dflt) ==
  IF Get(obj, key).t = "undef" THEN dflt ELSE Get(obj, key)

\* JavaScript truthiness
Truthy(v) ==
  CASE v.t \in {"undef", "null"} -> FALSE
    [] v.t = "str" -> v.v # <<>>
    [] v.t = "num" -> v.v # 0
    [] v.t = "bool" -> v.v
    [] OTHER -> TRUE

----------------------------------------------------------------------------
(* The disk and the fs/promises primitives. A disk is a record             *)
(* [dirs |-> set of paths, files |-> function from paths to bytes]; paths  *)
(* are absolute and normalised. The disks of the model hold no symbolic    *)
(* link, and no request can create one.                                    *)

ROOT == SLASH

\* the position of the last "/" of an absolute path
LastSlash(p) ==
  CHOOSE i \in 1..Len(p) : p[i] = "/" /\ \A j \in (i + 1)..Len(p) : p[j] # "/"

\* the directory an entry lies in; the root is its own parent
Parent(p) == IF LastSlash(p) = 1 THEN ROOT ELSE SubSeq(p, 1, LastSlash(p) - 1)

\* the name of an entry in its directory
BaseName(p) == SubSeq(p, LastSlash(p) + 1, Len(p))

\* p lies strictly below the directory d
Below(d, p) ==
  /\ p # d
  /\ IF d = ROOT THEN TRUE ELSE Within(d, p)

IsFile(disk, p) == p \in DOMAIN disk.files
IsDir(disk, p) == p \in disk.dirs
Exists(disk, p) == IsFile(disk, p) \/ IsDir(disk, p)
Entries(disk) == disk.dirs \cup DOMAIN disk.files
Children(disk, d) == {q \in Entries(disk) : q # d /\ Parent(q) = d}

\* the error of looking a name up in directory d: none (""), ENOTDIR when a
\* file stands on the way, ENOENT when the directory is missing
DirErr(disk, d) ==
  IF IsDir(disk, d) THEN ""
  ELSE IF \E f \in DOMAIN disk.files : f = d \/ Below(f, d) THEN "ENOTDIR"
  ELSE "ENOENT"

\* the error of looking p itself up
LookupErr(disk, p) ==
  IF DirErr(disk, Parent(p)) # "" THEN DirErr(disk, Parent(p))
  ELSE IF ~Exists(disk, p) THEN "ENOENT"
  ELSE ""

Fail(disk, code) == [ok |-> FALSE, disk |-> disk, error |-> code]
Done(disk, val) == [ok |-> TRUE, disk |-> disk, val |-> val]

\* a write that leaves an existing file as it is
PutFileKeep(disk, p, bytes) ==
  [disk EXCEPT !.files = [q \in DOMAIN disk.files \cup {p} |->
                            IF q \in DOMAIN disk.files THEN disk.files[q] ELSE bytes]]

PutFile(disk, p, bytes) ==
  [disk EXCEPT !.files = [q \in DOMAIN disk.files \cup {p} |->
                            IF q = p THEN bytes ELSE disk.files[q]]]

\* the disk without p and everything below it
Without(disk, p) ==
  [dirs |-> {d \in disk.dirs : d # p /\ ~Below(p, d)},
   files |-> [q \in {f \in DOMAIN disk.files : f # p /\ ~Below(p, f)} |-> disk.files[q]]]

\* p and its ancestors, the filesystem root excluded
RECURSIVE Ancestry(_)
Ancestry(p) == IF p = ROOT THEN {} ELSE {p} \cup Ancestry(Parent(p))

HexDigits == <<"0", "1", "2", "3", "4", "5", "6", "7", "8", "9", "a", "b", "c", "d", "e", "f">>

\* buf.toString('hex')
RECURSIVE HexEncode(_)
HexEncode(bytes) ==
  IF bytes = <<>> THEN <<>>
  ELSE <<HexDigits[(Head(bytes) \div 16) + 1], HexDigits[(Head(bytes) % 16) + 1]>>
       \o HexEncode(Tail(bytes))

\* fs.readFile(p, encoding): the content as a string
FsReadFile(disk, p, encoding) ==
  IF encoding \notin {ENC_UTF8, ENC_HEX} THEN Fail(disk, "ERR_INVALID_ARG_VALUE")
  ELSE IF DirErr(disk, Parent(p)) # "" THEN Fail(disk, DirErr(disk, Parent(p)))
  ELSE IF IsDir(disk, p) THEN Fail(disk, "EISDIR")
  ELSE IF ~IsFile(disk, p) THEN Fail(disk, "ENOENT")
  ELSE Done(disk, [data |-> IF encoding = ENC_UTF8 THEN Utf8Decode(disk.files[p])
                            ELSE HexEncode(disk.files[p])])

\* fs.readdir(p, {withFileTypes}): the names, or the entries as JSON.stringify
\* renders a Dirent (its own properties: the name and the directory)
FsReaddir(disk, p, withFileTypes) ==
  IF LookupErr(disk, p) # "" THEN Fail(disk, LookupErr(disk, p))
  ELSE IF ~IsDir(disk, p) THEN Fail(disk, "ENOTDIR")
  ELSE Done(disk, [files |-> IF withFileTypes
                             THEN {[name |-> BaseName(q), parentPath |-> p] : q \in Children(disk, p)}
                             ELSE {BaseName(q) : q \in Children(disk, p)}])

\* fs.stat(p) and fs.lstat(p) (no links: the two agree); the projection the
\* handler returns, without the mode and the four times
FsStat(disk, p) ==
  IF LookupErr(disk, p) # "" THEN Fail(disk, LookupErr(disk, p))
  ELSE Done(disk, [stats |-> [isFile |-> IsFile(disk, p),
                              isDirectory |-> IsDir(disk, p),
                              isSymbolicLink |-> FALSE,
                              size |-> IF IsFile(disk, p) THEN Len(disk.files[p]) ELSE 0]])

FsRealpath(disk, p) ==
  IF LookupErr(disk, p) # "" THEN Fail(disk, LookupErr(disk, p))
  ELSE Done(disk, [realPath |-> p])

FsReadlink(disk, p) ==
  IF LookupErr(disk, p) # "" THEN Fail(disk, LookupErr(disk, p))
  ELSE Fail(disk, "EINVAL")

FsWriteFile(disk, p, bytes) ==
  IF DirErr(disk, Parent(p)) # "" THEN Fail(disk, DirErr(disk, Parent(p)))
  ELSE IF IsDir(disk, p) THEN Fail(disk, "EISDIR")
  ELSE Done(PutFile(disk, p, bytes), JUndef)

FsAppendFile(disk, p, bytes) ==
  IF DirErr(disk, Parent(p)) # "" THEN Fail(disk, DirErr(disk, Parent(p)))
  ELSE IF IsDir(disk, p) THEN Fail(disk, "EISDIR")
  ELSE Done(PutFile(disk, p, (IF IsFile(disk, p) THEN disk.files[p] ELSE <<>>) \o bytes),
            JUndef)

\* fs.copyFile(src, dest, flags): flags 1 is COPYFILE_EXCL
FsCopyFile(disk, src, dest, flags) ==
  IF LookupErr(disk, src) # "" THEN Fail(disk, LookupErr(disk, src))
  ELSE IF IsDir(disk, src) THEN Fail(disk, "EISDIR")
  ELSE IF DirErr(disk, Parent(dest)) # "" THEN Fail(disk, DirErr(disk, Parent(dest)))
  ELSE IF Exists(disk, dest) /\ flags % 2 = 1 THEN Fail(disk, "EEXIST")
  ELSE IF IsDir(disk, dest) THEN Fail(disk, "EISDIR")
  ELSE Done(PutFile(disk, dest, disk.files[src]), JUndef)

FsMkdir(disk, p, recursive) ==
  IF recursive
  THEN IF \E f \in DOMAIN disk.files : Below(f, p) THEN Fail(disk, "ENOTDIR")
       ELSE IF IsFile(disk, p) THEN Fail(disk, "EEXIST")
       ELSE Done([disk EXCEPT !.dirs = @ \cup Ancestry(p)], JUndef)
  ELSE IF DirErr(disk, Parent(p)) # "" THEN Fail(disk, DirErr(disk, Parent(p)))
       ELSE IF Exists(disk, p) THEN Fail(disk, "EEXIST")
       ELSE Done([disk EXCEPT !.dirs = @ \cup {p}], JUndef)

\* fs.rmdir(p, {recursive}); with recursive the directory goes with its content
FsRmdir(disk, p, recursive) ==
  IF LookupErr(disk, p) # "" THEN Fail(disk, LookupErr(disk, p))
  ELSE IF ~IsDir(disk, p) THEN Fail(disk, "ENOTDIR")
  ELSE IF p = ROOT THEN Fail(disk, "EBUSY")
  ELSE IF ~recursive /\ Children(disk, p) # {} THEN Fail(disk, "ENOTEMPTY")
  ELSE Done(Without(disk, p), JUndef)

FsRm(disk, p, recursive, force) ==
  IF LookupErr(disk, p) # ""
  THEN IF force /\ LookupErr(disk, p) = "ENOENT" THEN Done(disk, JUndef)
       ELSE Fail(disk, LookupErr(disk, p))
  ELSE IF IsDir(disk, p) /\ ~recursive THEN Fail(disk, "ERR_FS_EISDIR")
  ELSE IF p = ROOT THEN Fail(disk, "EBUSY")
  ELSE Done(Without(disk, p), JUndef)

FsUnlink(disk, p) ==
  IF LookupErr(disk, p) # "" THEN Fail(disk, LookupErr(disk, p))
  ELSE IF IsDir(disk, p) THEN Fail(disk, "EISDIR")
  ELSE Done(Without(disk, p), JUndef)

\* q, which is old or lies below it, moved to the same place under new
Moved(old, new, q) == new \o SubSeq(q, Len(old) + 1, Len(q))

\* a rename that leaves the old name of a file in place
FsRenameCopy(disk, old, new) ==
  IF LookupErr(disk, old) # "" THEN Fail(disk, LookupErr(disk, old))
  ELSE IF DirErr(disk, Parent(new)) # "" THEN Fail(disk, DirErr(disk, Parent(new)))
  ELSE IF old = new THEN Done(disk, JUndef)
  ELSE IF IsFile(disk, old)
  THEN IF IsDir(disk, new) THEN Fail(disk, "EISDIR")
       ELSE Done(PutFile(disk, new, disk.files[old]), JUndef)
  ELSE IF Below(old, new) THEN Fail(disk, "EINVAL")
  ELSE IF old = ROOT THEN Fail(disk, "EBUSY")
  ELSE IF IsFile(disk, new) THEN Fail(disk, "ENOTDIR")
  ELSE IF IsDir(disk, new) /\ Children(disk, new) # {} THEN Fail(disk, "ENOTEMPTY")
  ELSE LET rest == Without(disk, old)
           movedDirs == {Moved(old, new, d) : d \in {x \in disk.dirs : x = old \/ Below(old, x)}}
           movedFiles == {f \in DOMAIN disk.files : Below(old, f)}
       IN Done([dirs |-> rest.dirs \cup movedDirs,
                files |-> [q \in DOMAIN rest.files \cup {Moved(old, new, f) : f \in movedFiles} |->
                             IF q \in DOMAIN rest.files THEN rest.files[q]
                             ELSE disk.files[CHOOSE f \in movedFiles : Moved(old, new, f) = q]]],
               JUndef)

FsRename(disk, old, new) ==
  IF LookupErr(disk, old) # "" THEN Fail(disk, LookupErr(disk, old))
  ELSE IF DirErr(disk, Parent(new)) # "" THEN Fail(disk, DirErr(disk, Parent(new)))
  ELSE IF old = new THEN Done(disk, JUndef)
  ELSE IF IsFile(disk, old)
  THEN IF IsDir(disk, new) THEN Fail(disk, "EISDIR")
       ELSE Done(PutFile(Without(disk, old), new, disk.files[old]), JUndef)
  ELSE IF Below(old, new) THEN Fail(disk, "EINVAL")
  ELSE IF old = ROOT THEN Fail(disk, "EBUSY")
  ELSE IF IsFile(disk, new) THEN Fail(disk, "ENOTDIR")
  ELSE IF IsDir(disk, new) /\ Children(disk, new) # {} THEN Fail(disk, "ENOTEMPTY")
  ELSE LET rest == Without(disk, old)
           movedDirs == {Moved(old, new, d) : d \in {x \in disk.dirs : x = old \/ Below(old, x)}}
           movedFiles == {f \in DOMAIN disk.files : Below(old, f)}
       IN Done([dirs |-> rest.dirs \cup movedDirs,
                files |-> [q \in DOMAIN rest.files \cup {Moved(old, new, f) : f \in movedFiles} |->
                             IF q \in DOMAIN rest.files THEN rest.files[q]
                             ELSE disk.files[CHOOSE f \in movedFiles : Moved(old, new, f) = q]]],
               JUndef)

----------------------------------------------------------------------------
(* Requests. A request is [method, url, contentType, body]:                *)
(*   url          [path |-> the tokens before any "?", hasQuery |-> whether*)
(*                a "?" follows, query |-> the decoded key/value pairs]    *)
(*   contentType  the tokens of the Content-Type header, <<>> when absent  *)
(*   body         the bytes the request stream delivers                    *)

API_PREFIX == "/api/fs"

\* parseQuery(url): Object.fromEntries keeps the last value of a key
QueryGet(url, key) ==
  IF ~url.hasQuery \/ url.query = <<>> THEN JUndef
  ELSE IF \E i \in 1..Len(url.query) : url.query[i].k = key
       THEN JStr(url.query[CHOOSE i \in 1..Len(url.query) :
                             /\ url.query[i].k = key
                             /\ \A j \in (i + 1)..Len(url.query) : url.query[j].k # key].v)
       ELSE JUndef

\* contentType.includes(token)
Includes(contentType, token) == \E i \in 1..Len(contentType) : contentType[i] = token

S_binary == <<"b", "i", "n", "a", "r", "y">>
S_unknown == <<"u", "n", "k", "n", "o", "w", "n">>

\* what a handler does up to its filesystem call: it answers, it throws, or
\* it calls one primitive. resolved lists the resolver's results so far.
Respond(status, body, resolved) ==
  [kind |-> "respond", status |-> status, body |-> body, resolved |-> resolved]
Throw(message, resolved) ==
  [kind |-> "throw", message |-> message, resolved |-> resolved]
Call(call, ctx, resolved) ==
  [kind |-> "call", call |-> call, ctx |-> ctx, resolved |-> resolved]

FlatError(text) == [shape |-> "flat", error |-> text]
Envelope(message) == [shape |-> "envelope", error |-> message, status |-> 500]

\* the call of a primitive, completed with the resolved path
WithPath(call, p) == [k \in DOMAIN call \cup {"path"} |-> IF k = "path" THEN p ELSE call[k]]

\* a handler that answers a resolver error itself, as a bad request
ResolvedAnswers(r, call, ctx) ==
  IF ~r.ok THEN Respond(400, FlatError(r.error), <<r>>)
  ELSE Call(WithPath(call, r.path), ctx, <<r>>)

\* a handler with one path parameter, from the resolver's result r on: the
\* error is thrown, or the primitive called with the resolved path
Resolved(r, call, ctx) ==
  IF ~r.ok THEN Throw(r.error, <<r>>)
  ELSE Call(WithPath(call, r.path), ctx, <<r>>)

\* a handler with one path parameter: resolvePath(filePath), then the call
OnePath(baseDir, filePath, call, ctx) == Resolved(ResolvePath(baseDir, filePath), call, ctx)

\* 'GET /'
GetRoot(baseDir) ==
  Respond(200, [message |-> "fs-browser API", baseDirectory |-> baseDir], <<>>)

METHODS == <<"readFile", "writeFile", "appendFile", "copyFile",
             "readdir", "mkdir", "rmdir", "rm",
             "rename", "unlink",
             "stat", "lstat", "readlink", "realpath">>

\* 'GET /methods'
\* a list of methods that leaves the last name out
GetMethodsShort == Respond(200, [methods |-> SubSeq(METHODS, 1, Len(METHODS) - 1)], <<>>)

GetMethods == Respond(200, [methods |-> METHODS], <<>>)

\* 'GET /readFile'
GetReadFile(baseDir, req) ==
  LET filePath == QueryGet(req.url, "path")
      encoding == IF QueryGet(req.url, "encoding").t = "undef" THEN ENC_UTF8
                  ELSE QueryGet(req.url, "encoding").v
      call == [op |-> "readFile", encoding |-> encoding]
  IN OnePath(baseDir, filePath, call, [route |-> "readFile"])

\* 'GET /readdir'
GetReaddir(baseDir, req) ==
  LET dirPath == IF QueryGet(req.url, "path").t = "undef" THEN JStr(DOT)
                 ELSE QueryGet(req.url, "path")
      withFileTypes == QueryGet(req.url, "withFileTypes") = JStr(S_true)
      call == [op |-> "readdir", withFileTypes |-> withFileTypes]
  IN OnePath(baseDir, dirPath, call, [route |-> "readdir"])

\* 'GET /stat'
GetStat(baseDir, req) ==
  LET call == [op |-> "stat"] IN
  OnePath(baseDir, QueryGet(req.url, "path"), call, [route |-> "stat"])

\* 'GET /lstat'
GetLstat(baseDir, req) ==
  LET call == [op |-> "lstat"] IN
  OnePath(baseDir, QueryGet(req.url, "path"), call, [route |-> "lstat"])

\* 'GET /realpath'
GetRealpath(baseDir, req) ==
  LET call == [op |-> "realpath"] IN
  OnePath(baseDir, QueryGet(req.url, "path"), call, [route |-> "realpath"])

\* 'GET /readlink'
GetReadlink(baseDir, req) ==
  LET call == [op |-> "readlink"] IN
  OnePath(baseDir, QueryGet(req.url, "path"), call, [route |-> "readlink"])

----------------------------------------------------------------------------
(* JSON bodies of the model, and JSON.parse on them                        *)

Kv(k, v) == [k |-> k, v |-> v]

\* the object with the given properties, those given as undefined left out
ObjOf(props) == JObj(SelectSeq(props, LAMBDA kv : kv.v.t # "undef"))

P_a == <<"a">>                 \* a file of the root
P_b == <<"b">>                 \* a name the root does not hold
P_slash_a == <<"/", "a">>
P_sub == <<"s", "u", "b">>     \* a directory of the root, holding the file f
P_sub_f == P_sub \o <<"/", "f">>
P_up == DOTDOT                 \* the directory above the root
P_sib == <<".", ".", "/", "d", "x">>   \* the sibling directory /s/dx
P_sib_a == P_sib \o <<"/", "a">>       \* a file of the sibling directory
P_sib_b == P_sib \o <<"/", "b">>

T_hi == <<"h", "i">>
T_hex_hi == <<"6", "8", "6", "9">>     \* "hi" in hexadecimal
T_b64_hi == <<"a", "G", "k", "=">>     \* "hi" in base64
T_zz == <<"z", "z">>

\* the structured bodies of writeFile and appendFile
WriteBody(path, data, type, encoding) ==
  ObjOf(<<Kv(K_path, path), Kv(K_data, data), Kv(K_type, type), Kv(K_encoding, encoding)>>)

BodyPathValues ==
  {JUndef, JNull, JNum(5), JStr(<<>>), JStr(P_b), JStr(P_up), JStr(P_sib_a)}

DataValues ==
  {JUndef, JNull, JStr(<<>>), JStr(T_hi), JStr(T_b64_hi), JNum(7),
   JArr(<<>>), JArr(<<JNum(104), JNum(105)>>), JObj(<<Kv(<<"k">>, JNum(1))>>)}

\* the data values tried with every type
MainDataValues == {JStr(<<>>), JStr(T_hi), JArr(<<>>), JArr(<<JNum(104), JNum(105)>>)}

TypeValues == {JUndef, JStr(S_text), JStr(S_json), JStr(S_buffer), JStr(T_zz)}

WriteBodies ==
  {WriteBody(p, JStr(T_hi), JUndef, JUndef) : p \in BodyPathValues}
  \cup {WriteBody(p, JUndef, JUndef, JUndef) : p \in {JUndef, JStr(P_up)}}
  \cup {WriteBody(JStr(P_b), d, t, JUndef) : d \in MainDataValues, t \in TypeValues}
  \cup {WriteBody(JStr(P_b), d, t, JUndef) :
          d \in DataValues, t \in {JUndef, JStr(S_buffer), JStr(S_json)}}
  \cup {WriteBody(JStr(P_b), d, JStr(S_text), e) :
          d \in {JStr(T_hi), JStr(T_hex_hi)}, e \in {JStr(ENC_HEX), JStr(T_zz)}}

\* JSON texts that are no object
PlainBodies == {JNull, JNum(7), JStr(T_hi), JArr(<<>>)}

PathBody(path, recursive, force) ==
  ObjOf(<<Kv(K_path, path), Kv(K_recursive, recursive), Kv(K_force, force)>>)

OpPathValues ==
  {JUndef, JStr(<<>>), JStr(P_a), JStr(P_b), JStr(P_sub), JStr(P_up), JStr(P_sib_a)}

Flag == {JUndef, JBool(FALSE), JBool(TRUE)}

PathBodies ==
  {PathBody(p, r, JUndef) : p \in OpPathValues, r \in Flag}
  \cup {PathBody(p, r, JBool(TRUE)) : p \in OpPathValues, r \in {JUndef, JBool(TRUE)}}

TwoPathBody(k1, p1, k2, p2, flags) ==
  ObjOf(<<Kv(k1, p1), Kv(k2, p2), Kv(K_flags, flags)>>)

PathPairs ==
  {<<JStr(P_a), JStr(P_b)>>, <<JStr(P_a), JStr(P_a)>>, <<JStr(P_b), JStr(P_a)>>,
   <<JStr(P_a), JStr(P_up)>>, <<JStr(P_up), JStr(P_b)>>, <<JStr(P_up), JStr(P_up)>>,
   <<JStr(P_a), JStr(P_sib_b)>>, <<JStr(P_sib_a), JStr(P_b)>>,
   <<JStr(P_sub), JStr(P_b)>>, <<JStr(P_a), JStr(P_sub)>>, <<JStr(P_a), JStr(P_sub_f)>>,
   <<JUndef, JStr(P_b)>>, <<JStr(P_a), JUndef>>}

CopyBodies ==
  {TwoPathBody(K_src, pp[1], K_dest, pp[2], JUndef) : pp \in PathPairs}
  \cup {TwoPathBody(K_src, JStr(P_a), K_dest, d, JNum(1)) : d \in {JStr(P_a), JStr(P_b)}}

RenameBodies ==
  {TwoPathBody(K_oldPath, pp[1], K_newPath, pp[2], JUndef) : pp \in PathPairs}

JsonUniverse == WriteBodies \cup PlainBodies \cup PathBodies \cup CopyBodies \cup RenameBodies

JsonText == [v \in JsonUniverse |-> Stringify(v, FALSE, <<>>)]

\* the bytes a client sends for the JSON value v
JsonBytes(v) == Utf8Encode(JsonText[v])

SYNTAX_ERROR == "SyntaxError"

\* JSON.parse(text): the value whose JSON text this is; a SyntaxError for a
\* text that is no JSON text
JsonValue == [text \in {JsonText[v] : v \in JsonUniverse} |->
                CHOOSE v \in JsonUniverse : JsonText[v] = text]

JsonParse(text) ==
  IF text \in DOMAIN JsonValue
  THEN [ok |-> TRUE, v |-> JsonValue[text]]
  ELSE [ok |-> FALSE, error |-> SYNTAX_ERROR]

\* Buffer.from(array): every element as a byte
BufferFromArray(arr) ==
  [i \in 1..Len(arr) |-> IF arr[i].t = "num" THEN arr[i].v % 256 ELSE 0]

----------------------------------------------------------------------------
(* The handlers of the routes that read a body, from the end of the body   *)
(* on (getRawBody has resolved with rawBody)                               *)

\* a write request decoded: its target path, its payload and its type
Decoded(filePath, data, type) ==
  [kind |-> "decoded", filePath |-> filePath, data |-> data, type |-> type]

\* a table that tries application/json before text/plain
WriteFileRowJsonFirst(contentType, queryPath) ==
  IF \/ Includes(contentType, "application/octet-stream")
     \/ Includes(contentType, "image/")
     \/ Includes(contentType, "video/")
     \/ Includes(contentType, "audio/")
     \/ Includes(contentType, "application/pdf")
  THEN "binary"
  ELSE IF Includes(contentType, "application/json")
  THEN IF Truthy(queryPath) THEN "json" ELSE "structured"
  ELSE IF Includes(contentType, "text/plain") THEN "text"
  ELSE "unknown"

\* 'POST /writeFile': the row of the content-type table a request falls in
WriteFileRow(contentType, queryPath) ==
  IF \/ Includes(contentType, "application/octet-stream")
     \/ Includes(contentType, "image/")
     \/ Includes(contentType, "video/")
     \/ Includes(contentType, "audio/")
     \/ Includes(contentType, "application/pdf")
  THEN "binary"
  ELSE IF Includes(contentType, "text/plain") THEN "text"
  ELSE IF Includes(contentType, "application/json")
  THEN IF Truthy(queryPath) THEN "json" ELSE "structured"
  ELSE "unknown"

\* a switch that writes the data of type json as compact JSON text
WriteFilePayloadCompact(data, dataType, encoding) ==
  IF dataType = JStr(S_json)
  THEN BufferFromString(Stringify(data, FALSE, <<>>), encoding)
  ELSE IF dataType = JStr(S_buffer)
  THEN IF data.t = "arr" THEN [ok |-> TRUE, bytes |-> BufferFromArray(data.v)]
       ELSE IF data.t = "str" THEN [ok |-> TRUE, bytes |-> B64Decode(data.v)]
       ELSE [ok |-> FALSE, error |-> TYPE_ERROR]
  ELSE BufferFromString(JsString(data), encoding)

\* 'POST /writeFile', structured body: the switch on the type of the data
WriteFilePayload(data, dataType, encoding) ==
  IF dataType = JStr(S_json)
  THEN BufferFromString(Stringify(data, TRUE, <<>>), encoding)
  ELSE IF dataType = JStr(S_buffer)
  THEN IF data.t = "arr" THEN [ok |-> TRUE, bytes |-> BufferFromArray(data.v)]
       ELSE IF data.t = "str" THEN [ok |-> TRUE, bytes |-> B64Decode(data.v)]
       ELSE [ok |-> FALSE, error |-> TYPE_ERROR]
  ELSE BufferFromString(JsString(data), encoding)

\* 'POST /writeFile', structured body: the payload, or the error of Buffer.from
WriteFileEncoded(filePath, dataType, writeData) ==
  IF ~writeData.ok THEN Throw(writeData.error, <<>>)
  ELSE Decoded(filePath, writeData.bytes, dataType)

\* 'POST /writeFile', structured body: the checks of path and data
WriteFileFields(filePath, data, dataType, encoding) ==
  IF ~Truthy(filePath) THEN Respond(400, FlatError("Path is required"), <<>>)
  ELSE IF data.t \in {"undef", "null"}
  THEN Respond(400, FlatError("Data is required"), <<>>)
  ELSE WriteFileEncoded(filePath, dataType, WriteFilePayload(data, dataType, encoding))

\* 'POST /writeFile', structured body: body = JSON.parse(rawBody.toString()) and
\* its properties; reading a property of null throws
WriteFileBody(parsed) ==
  IF ~parsed.ok THEN Throw(parsed.error, <<>>)
  ELSE IF parsed.v.t = "null" THEN Throw(TYPE_ERROR, <<>>)
  ELSE WriteFileFields(Get(parsed.v, K_path), Get(parsed.v, K_data),
                   GetOr(parsed.v, K_type, JStr(S_text)),
                   GetOr(parsed.v, K_encoding, JStr(ENC_UTF8)))

\* 'POST /writeFile': the structured body {path, data, type, encoding} decoded to
\* the target path, the payload and the type, or the answer or error instead
WriteFileStructured(rawBody) ==
  IF Len(rawBody) = 0 THEN Respond(400, FlatError("Empty request body"), <<>>)
  ELSE WriteFileBody(JsonParse(Utf8Decode(rawBody)))

\* a decoder that reports the rows it does not know as text
WriteFileDecodeRowAsText(row, queryPath, rawBody) ==
  CASE row = "binary" -> Decoded(queryPath, rawBody, JStr(S_binary))
    [] row = "text" -> Decoded(queryPath, rawBody, JStr(S_text))
    [] row = "json" -> Decoded(queryPath, rawBody, JStr(S_json))
    [] row = "structured" -> WriteFileStructured(rawBody)
    [] row = "unknown" -> Decoded(queryPath, rawBody, JStr(S_text))

\* 'POST /writeFile': the decoded request by its row
WriteFileDecodeRow(row, queryPath, rawBody) ==
  CASE row = "binary" -> Decoded(queryPath, rawBody, JStr(S_binary))
    [] row = "text" -> Decoded(queryPath, rawBody, JStr(S_text))
    [] row = "json" -> Decoded(queryPath, rawBody, JStr(S_json))
    [] row = "structured" -> WriteFileStructured(rawBody)
    [] row = "unknown" -> Decoded(queryPath, rawBody, JStr(S_unknown))

\* 'POST /writeFile': the decoded request (target path, payload, type), or the
\* answer or error of the structured row
WriteFileDecode(req, rawBody) ==
  WriteFileDecodeRow(WriteFileRow(req.contentType, QueryGet(req.url, "path")),
                 QueryGet(req.url, "path"), rawBody)

\* a writeFile without the test for an empty payload
WriteFileFinishNoCheck(baseDir, filePath, writeData, type) ==
  OnePath(baseDir, filePath, [op |-> "writeFile", data |-> writeData],
          [route |-> "writeFile",
           body |-> [message |-> "File written successfully", path |-> filePath,
                     type |-> type, size |-> Len(writeData)]])

\* a handler that resolves the path before it checks the payload
WriteFileFinishResolveFirst(baseDir, filePath, writeData, type) ==
  IF ~ResolvePath(baseDir, filePath).ok
  THEN Throw(ResolvePath(baseDir, filePath).error, <<ResolvePath(baseDir, filePath)>>)
  ELSE IF Len(writeData) = 0
  THEN Respond(400, FlatError("No data to write"), <<ResolvePath(baseDir, filePath)>>)
  ELSE OnePath(baseDir, filePath, [op |-> "writeFile", data |-> writeData],
               [route |-> "writeFile",
                body |-> [message |-> "File written successfully", path |-> filePath,
                          type |-> type, size |-> Len(writeData)]])

\* 'POST /writeFile': the payload is validated, the path resolved, fs.writeFile called
WriteFileFinish(baseDir, filePath, writeData, type) ==
  IF Len(writeData) = 0 THEN Respond(400, FlatError("No data to write"), <<>>)
  ELSE OnePath(baseDir, filePath, [op |-> "writeFile", data |-> writeData],
               [route |-> "writeFile",
                body |-> [message |-> "File written successfully", path |-> filePath,
                          type |-> type, size |-> Len(writeData)]])

WriteFileDecoded(baseDir, d) ==
  IF d.kind # "decoded" THEN d
  ELSE WriteFileFinish(baseDir, d.filePath, d.data, d.type)

\* 'POST /writeFile', from the end of the body on
PostWriteFile(baseDir, req, rawBody) ==
  WriteFileDecoded(baseDir, WriteFileDecode(req, rawBody))

\* 'POST /appendFile': the row of the content-type table a request falls in
AppendFileRow(contentType, queryPath) ==
  IF \/ Includes(contentType, "application/octet-stream")
     \/ Includes(contentType, "image/")
     \/ Includes(contentType, "video/")
     \/ Includes(contentType, "audio/")
     \/ Includes(contentType, "application/pdf")
  THEN "binary"
  ELSE IF Includes(contentType, "text/plain") THEN "text"
  ELSE IF Includes(contentType, "application/json")
  THEN IF Truthy(queryPath) THEN "json" ELSE "structured"
  ELSE "unknown"

\* an appendFile that writes JSON data without indentation
AppendFilePayloadCompact(data, dataType, encoding) ==
  IF dataType = JStr(S_json)
  THEN BufferFromString(Stringify(data, FALSE, <<>>), encoding)
  ELSE IF dataType = JStr(S_buffer)
  THEN IF data.t = "arr" THEN [ok |-> TRUE, bytes |-> BufferFromArray(data.v)]
       ELSE IF data.t = "str" THEN [ok |-> TRUE, bytes |-> B64Decode(data.v)]
       ELSE [ok |-> FALSE, error |-> TYPE_ERROR]
  ELSE BufferFromString(JsString(data), encoding)

\* 'POST /appendFile', structured body: the switch on the type of the data
AppendFilePayload(data, dataType, encoding) ==
  IF dataType = JStr(S_json)
  THEN BufferFromString(Stringify(data, TRUE, <<>>), encoding)
  ELSE IF dataType = JStr(S_buffer)
  THEN IF data.t = "arr" THEN [ok |-> TRUE, bytes |-> BufferFromArray(data.v)]
       ELSE IF data.t = "str" THEN [ok |-> TRUE, bytes |-> B64Decode(data.v)]
       ELSE [ok |-> FALSE, error |-> TYPE_ERROR]
  ELSE BufferFromString(JsString(data), encoding)

\* 'POST /appendFile', structured body: the payload, or the error of Buffer.from
AppendFileEncoded(filePath, dataType, appendData) ==
  IF ~appendData.ok THEN Throw(appendData.error, <<>>)
  ELSE Decoded(filePath, appendData.bytes, dataType)

\* an appendFile that does not test the data of a structured body
AppendFileFieldsNoData(filePath, data, dataType, encoding) ==
  IF ~Truthy(filePath) THEN Respond(400, FlatError("Path is required"), <<>>)
  ELSE AppendFileEncoded(filePath, dataType, AppendFilePayload(data, dataType, encoding))

\* 'POST /appendFile', structured body: the checks of path and data
AppendFileFields(filePath, data, dataType, encoding) ==
  IF ~Truthy(filePath) THEN Respond(400, FlatError("Path is required"), <<>>)
  ELSE IF data.t \in {"undef", "null"}
  THEN Respond(400, FlatError("Data is required"), <<>>)
  ELSE AppendFileEncoded(filePath, dataType, AppendFilePayload(data, dataType, encoding))

\* 'POST /appendFile', structured body: body = JSON.parse(rawBody.toString()) and
\* its properties; reading a property of null throws
AppendFileBody(parsed) ==
  IF ~parsed.ok THEN Throw(parsed.error, <<>>)
  ELSE IF parsed.v.t = "null" THEN Throw(TYPE_ERROR, <<>>)
  ELSE AppendFileFields(Get(parsed.v, K_path), Get(parsed.v, K_data),
                   GetOr(parsed.v, K_type, JStr(S_text)),
                   GetOr(parsed.v, K_encoding, JStr(ENC_UTF8)))

\* 'POST /appendFile': the structured body {path, data, type, encoding} decoded to
\* the target path, the payload and the type, or the answer or error instead
AppendFileStructured(rawBody) ==
  IF Len(rawBody) = 0 THEN Respond(400, FlatError("Empty request body"), <<>>)
  ELSE AppendFileBody(JsonParse(Utf8Decode(rawBody)))

\* 'POST /appendFile': the decoded request by its row
AppendFileDecodeRow(row, queryPath, rawBody) ==
  CASE row = "binary" -> Decoded(queryPath, rawBody, JStr(S_binary))
    [] row = "text" -> Decoded(queryPath, rawBody, JStr(S_text))
    [] row = "json" -> Decoded(queryPath, rawBody, JStr(S_json))
    [] row = "structured" -> AppendFileStructured(rawBody)
    [] row = "unknown" -> Decoded(queryPath, rawBody, JStr(S_unknown))

\* 'POST /appendFile': the decoded request (target path, payload, type), or the
\* answer or error of the structured row
AppendFileDecode(req, rawBody) ==
  AppendFileDecodeRow(AppendFileRow(req.contentType, QueryGet(req.url, "path")),
                 QueryGet(req.url, "path"), rawBody)

\* 'POST /appendFile': the payload is validated, the path resolved, fs.appendFile called
AppendFileFinish(baseDir, filePath, appendData, type) ==
  IF Len(appendData) = 0 THEN Respond(400, FlatError("No data to append"), <<>>)
  ELSE OnePath(baseDir, filePath, [op |-> "appendFile", data |-> appendData],
               [route |-> "appendFile",
                body |-> [message |-> "Data appended successfully", path |-> filePath,
                          type |-> type, size |-> Len(appendData)]])

AppendFileDecoded(baseDir, d) ==
  IF d.kind # "decoded" THEN d
  ELSE AppendFileFinish(baseDir, d.filePath, d.data, d.type)

\* 'POST /appendFile', from the end of the body on
PostAppendFile(baseDir, req, rawBody) ==
  AppendFileDecoded(baseDir, AppendFileDecode(req, rawBody))

\* destructuring JSON.parse(...): destructuring null throws
NotNull(parsed) ==
  IF ~parsed.ok THEN parsed
  ELSE IF parsed.v.t = "null" THEN [ok |-> FALSE, error |-> TYPE_ERROR]
  ELSE parsed

\* const {...} = JSON.parse(rawBody.toString()): the parsed value, or the
\* error of the parse or of the destructuring
ParsedBody(rawBody) == NotNull(JsonParse(Utf8Decode(rawBody)))

\* a handler with two path parameters: the first is resolved, then the
\* second, then the primitive is called with both
TwoPaths(first, second, call, ctx) ==
  IF ~first.ok THEN Throw(first.error, <<first>>)
  ELSE IF ~second.ok THEN Throw(second.error, <<first, second>>)
  ELSE Call([k \in DOMAIN call \cup {"path", "dest"} |->
               IF k = "path" THEN first.path
               ELSE IF k = "dest" THEN second.path ELSE call[k]],
            ctx, <<first, second>>)

CopyFileParsed(baseDir, parsed) ==
  IF ~parsed.ok THEN Throw(parsed.error, <<>>)
  ELSE TwoPaths(ResolvePath(baseDir, Get(parsed.v, K_src)),
                ResolvePath(baseDir, Get(parsed.v, K_dest)),
                [op |-> "copyFile", flags |-> GetOr(parsed.v, K_flags, JNum(0))],
                [route |-> "copyFile",
                 body |-> [message |-> "File copied successfully",
                           src |-> Get(parsed.v, K_src), dest |-> Get(parsed.v, K_dest)]])

\* 'POST /copyFile'
PostCopyFile(baseDir, rawBody) == CopyFileParsed(baseDir, ParsedBody(rawBody))

MkdirParsed(baseDir, parsed) ==
  IF ~parsed.ok THEN Throw(parsed.error, <<>>)
  ELSE OnePath(baseDir, Get(parsed.v, K_path),
               [op |-> "mkdir", recursive |-> GetOr(parsed.v, K_recursive, JBool(TRUE))],
               [route |-> "mkdir",
                body |-> [message |-> "Directory created", path |-> Get(parsed.v, K_path)]])

\* 'POST /mkdir'
PostMkdir(baseDir, rawBody) == MkdirParsed(baseDir, ParsedBody(rawBody))

RmdirParsed(baseDir, parsed) ==
  IF ~parsed.ok THEN Throw(parsed.error, <<>>)
  ELSE OnePath(baseDir, Get(parsed.v, K_path),
               [op |-> "rmdir", recursive |-> GetOr(parsed.v, K_recursive, JBool(FALSE))],
               [route |-> "rmdir",
                body |-> [message |-> "Directory removed", path |-> Get(parsed.v, K_path)]])

\* 'DELETE /rmdir'
DeleteRmdir(baseDir, rawBody) == RmdirParsed(baseDir, ParsedBody(rawBody))

\* an rm that removes recursively unless the body says otherwise
RmParsedRecursive(baseDir, parsed) ==
  IF ~parsed.ok THEN Throw(parsed.error, <<>>)
  ELSE OnePath(baseDir, Get(parsed.v, K_path),
               [op |-> "rm", recursive |-> GetOr(parsed.v, K_recursive, JBool(TRUE)),
                force |-> GetOr(parsed.v, K_force, JBool(FALSE))],
               [route |-> "rm",
                body |-> [message |-> "Removed successfully", path |-> Get(parsed.v, K_path)]])

RmParsed(baseDir, parsed) ==
  IF ~parsed.ok THEN Throw(parsed.error, <<>>)
  ELSE OnePath(baseDir, Get(parsed.v, K_path),
               [op |-> "rm", recursive |-> GetOr(parsed.v, K_recursive, JBool(FALSE)),
                force |-> GetOr(parsed.v, K_force, JBool(FALSE))],
               [route |-> "rm",
                body |-> [message |-> "Removed successfully", path |-> Get(parsed.v, K_path)]])

\* 'DELETE /rm'
DeleteRm(baseDir, rawBody) == RmParsed(baseDir, ParsedBody(rawBody))

\* a rename that passes newPath on without the resolver's test
RenameParsedRaw(baseDir, parsed) ==
  IF ~parsed.ok THEN Throw(parsed.error, <<>>)
  ELSE TwoPaths(ResolvePath(baseDir, Get(parsed.v, K_oldPath)),
                ResolvePathNoCheck(baseDir, Get(parsed.v, K_newPath)),
                [op |-> "rename"],
                [route |-> "rename",
                 body |-> [message |-> "Renamed successfully",
                           oldPath |-> Get(parsed.v, K_oldPath),
                           newPath |-> Get(parsed.v, K_newPath)]])

RenameParsed(baseDir, parsed) ==
  IF ~parsed.ok THEN Throw(parsed.error, <<>>)
  ELSE TwoPaths(ResolvePath(baseDir, Get(parsed.v, K_oldPath)),
                ResolvePath(baseDir, Get(parsed.v, K_newPath)),
                [op |-> "rename"],
                [route |-> "rename",
                 body |-> [message |-> "Renamed successfully",
                           oldPath |-> Get(parsed.v, K_oldPath),
                           newPath |-> Get(parsed.v, K_newPath)]])

\* 'PUT /rename'
PutRename(baseDir, rawBody) == RenameParsed(baseDir, ParsedBody(rawBody))

UnlinkParsed(baseDir, parsed) ==
  IF ~parsed.ok THEN Throw(parsed.error, <<>>)
  ELSE OnePath(baseDir, Get(parsed.v, K_path), [op |-> "unlink"],
               [route |-> "unlink",
                body |-> [message |-> "File deleted", path |-> Get(parsed.v, K_path)]])

\* 'DELETE /unlink'
DeleteUnlink(baseDir, rawBody) == UnlinkParsed(baseDir, ParsedBody(rawBody))

----------------------------------------------------------------------------
(* The primitive behind a handler's call                                   *)

INVALID_ARG == "ERR_INVALID_ARG_TYPE"

FsExec(disk, call) ==
  CASE call.op = "readFile" -> FsReadFile(disk, call.path, call.encoding)
    [] call.op = "readdir" -> FsReaddir(disk, call.path, call.withFileTypes)
    [] call.op \in {"stat", "lstat"} -> FsStat(disk, call.path)
    [] call.op = "realpath" -> FsRealpath(disk, call.path)
    [] call.op = "readlink" -> FsReadlink(disk, call.path)
    [] call.op = "writeFile" -> FsWriteFile(disk, call.path, call.data)
    [] call.op = "appendFile" -> FsAppendFile(disk, call.path, call.data)
    [] call.op = "copyFile" ->
         IF call.flags.t # "num" THEN Fail(disk, INVALID_ARG)
         ELSE FsCopyFile(disk, call.path, call.dest, call.flags.v)
    [] call.op = "mkdir" ->
         IF call.recursive.t # "bool" THEN Fail(disk, INVALID_ARG)
         ELSE FsMkdir(disk, call.path, call.recursive.v)
    [] call.op = "rmdir" ->
         IF call.recursive.t # "bool" THEN Fail(disk, INVALID_ARG)
         ELSE FsRmdir(disk, call.path, call.recursive.v)
    [] call.op = "rm" ->
         IF call.recursive.t # "bool" \/ call.force.t # "bool" THEN Fail(disk, INVALID_ARG)
         ELSE FsRm(disk, call.path, call.recursive.v, call.force.v)
    [] call.op = "rename" -> FsRename(disk, call.path, call.dest)
    [] call.op = "unlink" -> FsUnlink(disk, call.path)

\* the paths a call hands to its primitive
CallPaths(call) ==
  IF call.op \in {"copyFile", "rename"} THEN {call.path, call.dest} ELSE {call.path}

----------------------------------------------------------------------------
(* Dispatch: the route table and the two entry points                      *)

\* the keys of the object createFsHandlers returns
RouteKey(method, path) == [method |-> method, path |-> path]

BodyRoutes ==
  {RouteKey("POST", <<"/writeFile">>), RouteKey("POST", <<"/appendFile">>),
   RouteKey("POST", <<"/copyFile">>), RouteKey("POST", <<"/mkdir">>),
   RouteKey("DELETE", <<"/rmdir">>), RouteKey("DELETE", <<"/rm">>),
   RouteKey("PUT", <<"/rename">>), RouteKey("DELETE", <<"/unlink">>)}

QueryRoutes ==
  {RouteKey("GET", <<"/">>), RouteKey("GET", <<"/methods">>),
   RouteKey("GET", <<"/readFile">>), RouteKey("GET", <<"/readdir">>),
   RouteKey("GET", <<"/stat">>), RouteKey("GET", <<"/lstat">>),
   RouteKey("GET", <<"/realpath">>), RouteKey("GET", <<"/readlink">>)}

RouteTable == QueryRoutes \cup BodyRoutes

\* a handler without a body, run to its filesystem call
RunQueryHandler(baseDir, key, req) ==
  CASE key.path = <<"/">> -> GetRoot(baseDir)
    [] key.path = <<"/methods">> -> GetMethods
    [] key.path = <<"/readFile">> -> GetReadFile(baseDir, req)
    [] key.path = <<"/readdir">> -> GetReaddir(baseDir, req)
    [] key.path = <<"/stat">> -> GetStat(baseDir, req)
    [] key.path = <<"/lstat">> -> GetLstat(baseDir, req)
    [] key.path = <<"/realpath">> -> GetRealpath(baseDir, req)
    [] key.path = <<"/readlink">> -> GetReadlink(baseDir, req)

\* a handler with a body, from the end of the body to its filesystem call
RunBodyHandler(baseDir, key, req, rawBody) ==
  CASE key.path = <<"/writeFile">> -> PostWriteFile(baseDir, req, rawBody)
    [] key.path = <<"/appendFile">> -> PostAppendFile(baseDir, req, rawBody)
    [] key.path = <<"/copyFile">> -> PostCopyFile(baseDir, rawBody)
    [] key.path = <<"/mkdir">> -> PostMkdir(baseDir, rawBody)
    [] key.path = <<"/rmdir">> -> DeleteRmdir(baseDir, rawBody)
    [] key.path = <<"/rm">> -> DeleteRm(baseDir, rawBody)
    [] key.path = <<"/rename">> -> PutRename(baseDir, rawBody)
    [] key.path = <<"/unlink">> -> DeleteUnlink(baseDir, rawBody)

\* req.url.startsWith(prefix)
UnderPrefix(url, prefix) == url.path # <<>> /\ url.path[1] = prefix

\* (req.url.substring(prefix.length) || '/').split('?')[0]
RoutePath(url) ==
  IF Tail(url.path) = <<>> /\ ~url.hasQuery THEN <<"/">> ELSE Tail(url.path)

\* a lookup by the path alone, whatever the method
HandlerKeyPathOnly(req) ==
  IF \E k \in RouteTable : k.path = RoutePath(req.url)
  THEN CHOOSE k \in RouteTable : k.path = RoutePath(req.url)
  ELSE RouteKey(req.method, RoutePath(req.url))

\* `${req.method} ${routePath.split('?')[0]}`
HandlerKey(req) == RouteKey(req.method, RoutePath(req.url))

\* handlers[handlerKey]: the handler, or undefined
HasHandler(key) == key \in RouteTable

ROUTE_NOT_FOUND == FlatError("Route not found")
JUST_FS == [shape |-> "flat", error |-> "Not Found",
            message |-> "Running in --justfs mode. Only fs API endpoints are available."]

\* what an entry point does with a request before any handler runs: "handle"
\* (dispatch to the handler of the key), or the answer it gives itself.
\* entry is "vite" (the middleware) or "withfs" (the server, run with --justfs)
Entry(entry, req) ==
  IF entry = "withfs" /\ req.method = "OPTIONS"
  THEN [kind |-> "respond", status |-> 200, body |-> [empty |-> TRUE]]
  ELSE IF ~UnderPrefix(req.url, API_PREFIX)
  THEN IF entry = "vite" THEN [kind |-> "next"]
       ELSE [kind |-> "respond", status |-> 404, body |-> JUST_FS]
  ELSE IF HasHandler(HandlerKey(req)) THEN [kind |-> "handle", key |-> HandlerKey(req)]
  ELSE [kind |-> "respond", status |-> 404, body |-> ROUTE_NOT_FOUND]

----------------------------------------------------------------------------
(* The requests of the model                                               *)

Url(path, query) == [path |-> path, hasQuery |-> query # <<>>, query |-> query]
ApiUrl(route, query) == Url(<<API_PREFIX, route>>, query)
QPath(p) == <<[k |-> "path", v |-> p]>>
Request(method, url, contentType, body) ==
  [method |-> method, url |-> url, contentType |-> contentType, body |-> body]

B_empty == <<>>
B_hi == Utf8Encode(T_hi)

CT_none == <<>>
CT_octet == <<"application/octet-stream">>
CT_png == <<"image/", "png">>
CT_text == <<"text/plain">>
CT_json == <<"application/json">>
CT_json_utf8 == <<"application/json", "; charset=utf-8">>
CT_xml == <<"application/xml">>
CT_text_json == <<"text/plain", ", ", "application/json">>

RawContentTypes == {CT_none, CT_octet, CT_png, CT_text, CT_xml, CT_text_json}

WriteRoutes == {"/writeFile", "/appendFile"}

\* a structured body naming the path b, with the data "hi"
B_body == JsonBytes(WriteBody(JStr(P_b), JStr(T_hi), JUndef, JUndef))

\* query string and body of the requests whose body is written as it is
RawWrites ==
  {<<<<>>, B_hi>>, <<<<>>, B_empty>>, <<QPath(P_b), B_hi>>, <<QPath(P_b), B_empty>>,
   <<QPath(P_up), B_hi>>, <<QPath(P_up), B_empty>>, <<QPath(P_sib_b), B_hi>>,
   <<QPath(<<>>), B_hi>>, <<QPath(P_a), B_body>>}

WriteRequests ==
  {Request("POST", ApiUrl(rt, w[1]), ct, w[2]) :
     rt \in WriteRoutes, ct \in RawContentTypes, w \in RawWrites}
  \cup {Request("POST", ApiUrl(rt, w[1]), CT_json, w[2]) :
          rt \in WriteRoutes,
          w \in RawWrites \cup {<<QPath(P_b), B_body>>, <<QPath(P_up), B_body>>,
                                <<QPath(<<>>), B_body>>, <<QPath(<<>>), B_empty>>}}
  \cup {Request("POST", ApiUrl(rt, <<>>), CT_json, JsonBytes(v)) :
          rt \in WriteRoutes, v \in WriteBodies \cup PlainBodies}
  \cup {Request("POST", ApiUrl(rt, <<>>), CT_json_utf8, B_body) : rt \in WriteRoutes}

PathQueries == {<<>>, QPath(P_a), QPath(P_up), QPath(P_sib_a)}

ReadRequests ==
  {Request("GET", ApiUrl("/readFile", q), CT_none, B_empty) :
     q \in PathQueries \cup {QPath(<<>>), QPath(P_slash_a), QPath(P_b), QPath(P_sub),
                             QPath(P_a) \o <<[k |-> "encoding", v |-> ENC_HEX]>>,
                             QPath(P_up) \o QPath(P_a)}}
  \cup {Request("GET", ApiUrl("/readdir", q), CT_none, B_empty) :
          q \in {<<>>, QPath(P_a), QPath(P_sub), QPath(P_up), QPath(P_sib),
                 QPath(P_sub) \o <<[k |-> "withFileTypes", v |-> S_true]>>}}
  \cup {Request("GET", ApiUrl(rt, q), CT_none, B_empty) :
          rt \in {"/stat", "/lstat", "/realpath", "/readlink"}, q \in PathQueries}
  \cup {Request("GET", ApiUrl(rt, q), CT_none, B_empty) :
          rt \in {"/", "/methods"}, q \in {<<>>, QPath(P_up)}}

BadBodies == {B_empty, B_hi, JsonBytes(JNull), JsonBytes(JNum(7))}

OnePathBodies == {JsonBytes(PathBody(p, r, JUndef)) : p \in OpPathValues, r \in Flag}


OpRequests ==
  {Request("POST", ApiUrl("/copyFile", <<>>), CT_json, b) :
     b \in BadBodies \cup {JsonBytes(v) : v \in CopyBodies}}
  \cup {Request("PUT", ApiUrl("/rename", <<>>), CT_json, b) :
          b \in BadBodies \cup {JsonBytes(v) : v \in RenameBodies}}
  \cup {Request("POST", ApiUrl("/mkdir", <<>>), CT_json, b) : b \in OnePathBodies}
  \cup {Request("DELETE", ApiUrl("/rmdir", <<>>), CT_json, b) : b \in OnePathBodies}
  \cup {Request("DELETE", ApiUrl("/rm", <<>>), CT_json, JsonBytes(v)) : v \in PathBodies}
  \cup {Request("DELETE", ApiUrl("/unlink", <<>>), CT_json, JsonBytes(PathBody(p, JUndef, JUndef))) :
          p \in OpPathValues}
  \cup {Request("POST", ApiUrl("/mkdir", <<>>), CT_json, b) : b \in BadBodies}
  \cup {Request("DELETE", ApiUrl("/unlink", <<>>), CT_json, b) : b \in BadBodies}

\* requests that match no route, and requests the entry points answer themselves
StrayRequests ==
  {Request("GET", ApiUrl("/nope", <<>>), CT_none, B_empty),
   Request("GET", Url(<<API_PREFIX, "/readFile", "/">>, QPath(P_a)), CT_none, B_empty),
   Request("GET", Url(<<API_PREFIX, "readFile">>, QPath(P_a)), CT_none, B_empty),
   Request("GET", Url(<<API_PREFIX>>, <<>>), CT_none, B_empty),
   Request("GET", Url(<<API_PREFIX>>, QPath(P_a)), CT_none, B_empty),
   Request("POST", ApiUrl("/readFile", QPath(P_a)), CT_none, B_empty),
   Request("GET", ApiUrl("/writeFile", QPath(P_b)), CT_text, B_hi),
   Request("PUT", ApiUrl("/writeFile", QPath(P_b)), CT_text, B_hi),
   Request("DELETE", ApiUrl("/rename", <<>>), CT_json,
           JsonBytes(TwoPathBody(K_oldPath, JStr(P_a), K_newPath, JStr(P_b), JUndef))),
   Request("OPTIONS", ApiUrl("/writeFile", QPath(P_b)), CT_text, B_hi),
   Request("OPTIONS", ApiUrl("/nope", <<>>), CT_none, B_empty),
   Request("GET", Url(<<"/index.html">>, <<>>), CT_none, B_empty)}

Inputs == WriteRequests \cup ReadRequests \cup OpRequests \cup StrayRequests

\* the requests a behaviour may issue beside one arbitrary request
CoreInputs ==
  {Request("POST", ApiUrl("/writeFile", QPath(P_b)), CT_text, B_hi),
   Request("DELETE", ApiUrl("/rm", <<>>), CT_json, JsonBytes(PathBody(JStr(P_a), JUndef, JUndef))),
   Request("PUT", ApiUrl("/rename", <<>>), CT_json,
           JsonBytes(TwoPathBody(K_oldPath, JStr(P_sub), K_newPath, JStr(P_b), JUndef)))}

----------------------------------------------------------------------------
(* The state machine                                                       *)

Rid == 1..MaxRequests

NoCall == [op |-> "none"]
NoResponse == [status |-> 0]
NoKey == RouteKey("", <<>>)

Idle == [pc |-> "idle"]

\* the disk the gateway starts on: the root /s/d with the file a and the
\* directory sub (holding f), beside the directory /s/dx with its file a
InitialDisk ==
  [dirs |-> {ROOT, <<"/", "s">>, BASE_DIR, BASE_DIR \o SLASH \o P_sub,
             <<"/", "s", "/", "d", "x">>},
   files |-> [q \in {BASE_DIR \o SLASH \o P_a, BASE_DIR \o SLASH \o P_sub_f,
                     <<"/", "s", "/", "d", "x", "/", "a">>} |->
                IF q = BASE_DIR \o SLASH \o P_a THEN <<111, 107>>
                ELSE IF q = BASE_DIR \o SLASH \o P_sub_f THEN <<102>>
                ELSE <<255>>]]

NoProbe == [fn |-> "none"]

Init ==
  /\ gateway \in {[entry |-> e, baseDir |-> BASE_DIR, routes |-> RouteTable] :
                    e \in {"vite", "withfs"}}
  /\ fs = InitialDisk
  /\ reqs = [r \in Rid |-> Idle]
  /\ probe = NoProbe

\* the record of a request that has been answered
Answered(req, key, resolved, calls, status, body) ==
  [pc |-> "done", req |-> req, key |-> key, resolved |-> resolved, calls |-> calls,
   pending |-> NoCall, ctx |-> [route |-> "none"],
   res |-> [status |-> status, body |-> body]]

\* an entry point that answers a handler's exception as a bad request
AfterHandlerBadRequest(req, key, out) ==
  CASE out.kind = "respond" ->
         Answered(req, key, out.resolved, <<>>, out.status, out.body)
    [] out.kind = "throw" ->
         Answered(req, key, out.resolved, <<>>, 400, FlatError(out.message))
    [] out.kind = "call" ->
         [pc |-> "fs", req |-> req, key |-> key, resolved |-> out.resolved,
          calls |-> <<out.call>>, pending |-> out.call, ctx |-> out.ctx,
          res |-> NoResponse]

\* an entry point without the catch: a handler's exception is answered by
\* nobody
AfterHandlerUncaught(req, key, out) ==
  CASE out.kind = "respond" ->
         Answered(req, key, out.resolved, <<>>, out.status, out.body)
    [] out.kind = "throw" ->
         [pc |-> "crashed", req |-> req, key |-> key, resolved |-> out.resolved,
          calls |-> <<>>, pending |-> NoCall, ctx |-> [route |-> "none"],
          res |-> NoResponse]
    [] out.kind = "call" ->
         [pc |-> "fs", req |-> req, key |-> key, resolved |-> out.resolved,
          calls |-> <<out.call>>, pending |-> out.call, ctx |-> out.ctx,
          res |-> NoResponse]

\* the record of a request after its handler ran to an answer, to an
\* exception (caught by the entry point: 500) or to its filesystem call
AfterHandler(req, key, out) ==
  CASE out.kind = "respond" ->
         Answered(req, key, out.resolved, <<>>, out.status, out.body)
    [] out.kind = "throw" ->
         Answered(req, key, out.resolved, <<>>, 500, Envelope(out.message))
    [] out.kind = "call" ->
         [pc |-> "fs", req |-> req, key |-> key, resolved |-> out.resolved,
          calls |-> <<out.call>>, pending |-> out.call, ctx |-> out.ctx,
          res |-> NoResponse]

\* handlers that run on the body as it is on arrival, without waiting for
\* the end of its stream
TakenEager(entry, baseDir, req, e) ==
  CASE e.kind = "next" ->
         [pc |-> "passed", req |-> req, key |-> NoKey, resolved |-> <<>>,
          calls |-> <<>>, pending |-> NoCall, ctx |-> [route |-> "none"],
          res |-> NoResponse]
    [] e.kind = "respond" -> Answered(req, NoKey, <<>>, <<>>, e.status, e.body)
    [] e.kind = "handle" /\ e.key \in BodyRoutes ->
         AfterHandler(req, e.key, RunBodyHandler(baseDir, e.key, req, req.body))
    [] e.kind = "handle" /\ e.key \notin BodyRoutes ->
         AfterHandler(req, e.key, RunQueryHandler(baseDir, e.key, req))

\* the record of a request once the entry point has taken it: the entry
\* point answers it, or dispatches it to its handler, which runs until it
\* waits for the body or for the filesystem
Taken(entry, baseDir, req, e) ==
  CASE e.kind = "next" ->
         [pc |-> "passed", req |-> req, key |-> NoKey, resolved |-> <<>>,
          calls |-> <<>>, pending |-> NoCall, ctx |-> [route |-> "none"],
          res |-> NoResponse]
    [] e.kind = "respond" -> Answered(req, NoKey, <<>>, <<>>, e.status, e.body)
    [] e.kind = "handle" /\ e.key \in BodyRoutes ->
         [pc |-> "body", req |-> req, key |-> e.key, resolved |-> <<>>,
          calls |-> <<>>, pending |-> NoCall, ctx |-> [route |-> "none"],
          res |-> NoResponse]
    [] e.kind = "handle" /\ e.key \notin BodyRoutes ->
         AfterHandler(req, e.key, RunQueryHandler(baseDir, e.key, req))

\* a request arrives, while earlier requests may still be running
Arrive(r, req) ==
  /\ reqs[r].pc = "idle"
  /\ \A q \in Rid : q < r => reqs[q].pc # "idle"
  /\ \/ req \in CoreInputs
     \/ \A q \in Rid : reqs[q].pc # "idle" => reqs[q].req \in CoreInputs
  /\ reqs' = [reqs EXCEPT ![r] =
       Taken(gateway.entry, gateway.baseDir, req, Entry(gateway.entry, req))]
  /\ UNCHANGED <<gateway, fs, probe>>

\* the body stream ends: getRawBody resolves and the handler runs on
BodyEnd(r) ==
  /\ reqs[r].pc = "body"
  /\ reqs' = [reqs EXCEPT ![r] =
       AfterHandler(reqs[r].req, reqs[r].key,
                    RunBodyHandler(gateway.baseDir, reqs[r].key, reqs[r].req, reqs[r].req.body))]
  /\ UNCHANGED <<gateway, fs, probe>>

STREAM_ERROR == "stream error"

\* the body stream fails: getRawBody rejects and the entry point answers 500
BodyError(r) ==
  /\ reqs[r].pc = "body"
  /\ reqs' = [reqs EXCEPT ![r] =
       Answered(reqs[r].req, reqs[r].key, <<>>, <<>>, 500, Envelope(STREAM_ERROR))]
  /\ UNCHANGED <<gateway, fs, probe>>

\* the primitive a handler awaits takes effect and returns: the handler
\* answers 200, or the primitive's error is caught by the entry point
\* a handler that calls its primitive a second time when it fails
AfterFsRetry(rec, out) ==
  IF out.ok
  THEN Answered(rec.req, rec.key, rec.resolved, rec.calls, 200,
                IF "body" \in DOMAIN rec.ctx THEN rec.ctx.body ELSE out.val)
  ELSE Answered(rec.req, rec.key, rec.resolved, rec.calls \o <<rec.pending>>, 500,
                Envelope(out.error))

AfterFs(rec, out) ==
  IF out.ok
  THEN Answered(rec.req, rec.key, rec.resolved, rec.calls, 200,
                IF "body" \in DOMAIN rec.ctx THEN rec.ctx.body ELSE out.val)
  ELSE Answered(rec.req, rec.key, rec.resolved, rec.calls, 500, Envelope(out.error))

\* a gateway that lets the calls of the primitives return in the order of
\* arrival of their requests
FsReturnInTurn(r) ==
  /\ reqs[r].pc = "fs"
  /\ \A q \in Rid : q < r => reqs[q].pc = "done"
  /\ fs' = FsExec(fs, reqs[r].pending).disk
  /\ reqs' = [reqs EXCEPT ![r] = AfterFs(reqs[r], FsExec(fs, reqs[r].pending))]
  /\ UNCHANGED <<gateway, probe>>

FsReturn(r) ==
  /\ reqs[r].pc = "fs"
  /\ fs' = FsExec(fs, reqs[r].pending).disk
  /\ reqs' = [reqs EXCEPT ![r] = AfterFs(reqs[r], FsExec(fs, reqs[r].pending))]
  /\ UNCHANGED <<gateway, probe>>

Next ==
  \E r \in Rid :
    \/ \E req \in Inputs : Arrive(r, req)
    \/ BodyEnd(r)
    \/ BodyError(r)
    \/ FsReturn(r)

Spec == Init /\ [][Next]_vars

\* the gateway where every body stream ends or fails and every call of a
\* primitive returns
SpecLive ==
  /\ Init
  /\ [][Next]_vars
  /\ \A r \in Rid : WF_vars(BodyError(r) \/ BodyEnd(r))
  /\ \A r \in Rid : WF_vars(FsReturn(r))

----------------------------------------------------------------------------
(* Requests issued one after the other: a client that awaits each answer   *)
(* before it sends the next request                                        *)

SeqRid == 1..MaxSteps

P_b_x == P_b \o <<"/", "x">>     \* the name x in b
B_bin == <<255, 104>>            \* bytes that are no UTF-8 text

Q_encoding(e) == <<[k |-> "encoding", v |-> e]>>

StructuredJson(data) ==
  Request("POST", ApiUrl("/writeFile", <<>>), CT_json,
          JsonBytes(WriteBody(JStr(P_b), data, JStr(S_json), JUndef)))

\* the JSON values written as data: every data value but undefined and null
JsonData == DataValues \ {JUndef, JNull}

SeqInputs ==
  {Request("POST", ApiUrl("/writeFile", QPath(P_a)), CT_text, B_hi),
   Request("POST", ApiUrl("/writeFile", QPath(P_b)), CT_octet, B_bin),
   Request("POST", ApiUrl("/writeFile", QPath(P_b_x)), CT_text, B_hi),
   Request("GET", ApiUrl("/readFile", QPath(P_a)), CT_none, B_empty),
   Request("GET", ApiUrl("/readFile", QPath(P_b)), CT_none, B_empty),
   Request("GET", ApiUrl("/readFile", QPath(P_b) \o Q_encoding(ENC_HEX)), CT_none, B_empty),
   Request("POST", ApiUrl("/mkdir", <<>>), CT_json,
           JsonBytes(PathBody(JStr(P_b), JBool(TRUE), JUndef))),
   Request("GET", ApiUrl("/readdir", QPath(P_b)), CT_none, B_empty),
   Request("GET", ApiUrl("/readdir", QPath(P_b) \o <<[k |-> "withFileTypes", v |-> S_true]>>),
           CT_none, B_empty),
   Request("PUT", ApiUrl("/rename", <<>>), CT_json,
           JsonBytes(TwoPathBody(K_oldPath, JStr(P_a), K_newPath, JStr(P_b), JUndef))),
   Request("GET", ApiUrl("/stat", QPath(P_a)), CT_none, B_empty),
   Request("GET", ApiUrl("/stat", QPath(P_b)), CT_none, B_empty)}
  \cup {StructuredJson(d) : d \in JsonData}

InitSeq ==
  /\ gateway \in {[entry |-> e, baseDir |-> BASE_DIR, routes |-> RouteTable] :
                    e \in {"vite", "withfs"}}
  /\ fs = InitialDisk
  /\ reqs = [r \in SeqRid |-> Idle]
  /\ probe = NoProbe

\* a request arrives once every earlier request has been answered
ArriveInTurn(r, req) ==
  /\ reqs[r].pc = "idle"
  /\ \A q \in SeqRid : q < r => reqs[q].pc = "done"
  /\ reqs' = [reqs EXCEPT ![r] =
       Taken(gateway.entry, gateway.baseDir, req, Entry(gateway.entry, req))]
  /\ UNCHANGED <<gateway, fs, probe>>

NextSeq ==
  \E r \in SeqRid :
    \/ \E req \in SeqInputs : ArriveInTurn(r, req)
    \/ BodyEnd(r)
    \/ FsReturn(r)

SpecSeq == InitSeq /\ [][NextSeq]_vars

----------------------------------------------------------------------------
(* The path resolver on its own                                            *)

\* one call of the resolver on p, on "/" + p, and on its own result
ResolveProbe(p) ==
  LET out == ResolvePath(BASE_DIR, JStr(p)) IN
  [fn |-> "resolve", arg |-> p, out |-> out,
   slashed |-> ResolvePath(BASE_DIR, JStr(SLASH \o p)),
   again |-> IF out.ok THEN ResolvePath(BASE_DIR, JStr(out.path)) ELSE out]

InitResolve ==
  /\ gateway = [entry |-> "vite", baseDir |-> BASE_DIR, routes |-> RouteTable]
  /\ fs = InitialDisk
  /\ reqs = [r \in Rid |-> Idle]
  /\ probe = NoProbe

\* the resolver keeps no state: a call does not depend on the calls before
\* it, and a behaviour makes one
CallResolve ==
  /\ probe = NoProbe
  /\ \E p \in CandidatePaths : probe' = ResolveProbe(p)
  /\ UNCHANGED <<gateway, fs, reqs>>

NextResolve == CallResolve

SpecResolve == InitResolve /\ [][NextResolve]_vars

----------------------------------------------------------------------------
(* The client library. Its state is the module variable API_BASE; probe    *)
(* holds it with the objects configure has returned and the URLs fetched.  *)

\* let API_BASE = '/api/fs'
DEFAULT_API_BASE == <<"/", "a", "p", "i", "/", "f", "s">>

\* the apiBase option: absent, /a, /a/, /b, h:/b/
ApiBases ==
  {JUndef, JStr(<<"/", "a">>), JStr(<<"/", "a", "/">>), JStr(<<"/", "b">>),
   JStr(<<"h", ":", "/", "b", "/">>)}

\* if (s.endsWith('/')) s = s.slice(0, -1)
StripSlash(s) ==
  IF s # <<>> /\ s[Len(s)] = "/" THEN SubSeq(s, 1, Len(s) - 1) ELSE s

\* the value of API_BASE after configure(options)
Configured(apiBase, option) ==
  IF option.t = "undef" THEN apiBase ELSE StripSlash(option.v)

\* encodeURIComponent on the characters of the model's paths
RECURSIVE EncodeURIComponent(_)
EncodeURIComponent(s) ==
  IF s = <<>> THEN <<>>
  ELSE (IF Head(s) = "/" THEN <<"%", "2", "F">> ELSE <<Head(s)>>)
       \o EncodeURIComponent(Tail(s))

\* the URLs readFile, stat and mkdir fetch
ReadFileUrl(apiBase, path) ==
  apiBase \o <<"/readFile?path=">> \o EncodeURIComponent(path) \o <<"&encoding=", "utf8">>
StatUrl(apiBase, path) == apiBase \o <<"/stat?path=">> \o EncodeURIComponent(path)
MkdirUrl(apiBase) == apiBase \o <<"/mkdir">>

ClientFunctions == {"readFile", "stat", "mkdir"}

FetchUrl(apiBase, fn, path) ==
  CASE fn = "readFile" -> ReadFileUrl(apiBase, path)
    [] fn = "stat" -> StatUrl(apiBase, path)
    [] fn = "mkdir" -> MkdirUrl(apiBase)

InitClient ==
  /\ gateway = [entry |-> "vite", baseDir |-> BASE_DIR, routes |-> RouteTable]
  /\ fs = InitialDisk
  /\ reqs = [r \in Rid |-> Idle]
  /\ probe = [fn |-> "client", API_BASE |-> DEFAULT_API_BASE,
              modules |-> <<>>, fetched |-> <<>>]

\* configure(options): sets the module variable and returns an object
\* holding the module's functions; modules records the option of each
\* object returned
configure(option) ==
  /\ Len(probe.modules) < MaxModules
  /\ probe' = [probe EXCEPT !.API_BASE = Configured(probe.API_BASE, option),
                            !.modules = Append(probe.modules, option)]
  /\ UNCHANGED <<gateway, fs, reqs>>

\* a function of the object m that configure returned is called: it reads
\* the module variable and fetches
Fetch(m, fn, path) ==
  /\ m \in 1..Len(probe.modules)
  /\ Len(probe.fetched) < MaxFetches
  /\ probe' = [probe EXCEPT !.fetched =
       Append(probe.fetched, [module |-> m, url |-> FetchUrl(probe.API_BASE, fn, path)])]
  /\ UNCHANGED <<gateway, fs, reqs>>

NextClient ==
  \/ \E option \in ApiBases : configure(option)
  \/ \E m \in 1..MaxModules : \E fn \in ClientFunctions : \E path \in {P_a, P_sub_f} :
       Fetch(m, fn, path)

SpecClient == InitClient /\ [][NextClient]_vars

----------------------------------------------------------------------------
(* Properties of the gateway. rec is the record of a request.               *)

\* the handler of the request has run, or an entry point has answered it
Past(rec) == rec.pc \in {"fs", "done"}

\* the body stream of the request failed
StreamFailed(rec) ==
  rec.pc = "done" /\ rec.res = [status |-> 500, body |-> Envelope(STREAM_ERROR)]

\* the request is a POST to the given route of the API
IsPost(rec, route) ==
  /\ rec.pc # "idle"
  /\ rec.req.method = "POST"
  /\ rec.req.url.path = <<API_PREFIX, route>>
  /\ rec.key = RouteKey("POST", <<route>>)

\* the resolver has rejected a path of the request as outside the root
RejectedOutside(rec) ==
  /\ rec.pc # "idle"
  /\ \E i \in 1..Len(rec.resolved) :
       ~rec.resolved[i].ok /\ rec.resolved[i].error = OUTSIDE

\* the request was answered with the given status and no primitive was called
Refused(rec, status) ==
  rec.pc = "done" /\ rec.res.status = status /\ rec.calls = <<>>

\* C1 (as stated): every path handed to a filesystem primitive is the root
\* or a descendant of it, segment by segment.
C1_CallsStayInsideRoot ==
  \A r \in Rid :
    reqs[r].pc # "idle" =>
      \A i \in 1..Len(reqs[r].calls) :
        \A p \in CallPaths(reqs[r].calls[i]) : Within(BASE_DIR, p)

C2_State ==
  \A r \in Rid :
    RejectedOutside(reqs[r]) =>
      /\ reqs[r].calls = <<>>
      /\ reqs[r].pending = NoCall
      /\ reqs[r].pc = "done"
      /\ reqs[r].res = [status |-> 500, body |-> Envelope(OUTSIDE)]

C2_Step ==
  \A r \in Rid :
    (RejectedOutside(reqs'[r]) /\ ~RejectedOutside(reqs[r])) => fs' = fs

\* C2: a request one of whose paths the resolver rejects as outside the root
\* calls no primitive, is answered 500 with the body {error: {message:
\* 'Invalid path: outside base directory', status: 500}}, and the step in
\* which the resolver rejects leaves the disk as it is.
C2_RejectionAborts == [](C2_State) /\ [][C2_Step]_vars

\* C2 witness: a rename whose first path was accepted and whose second path
\* was rejected has been answered.
C2_Witness ==
  \E r \in Rid :
    /\ reqs[r].pc = "done"
    /\ Len(reqs[r].resolved) = 2
    /\ reqs[r].resolved[1].ok
    /\ RejectedOutside(reqs[r])
    /\ reqs[r].res.status = 500

\* the names of the two path parameters of copyFile and of rename
TwoPathKeys(rec) ==
  IF rec.key.path = <<"/copyFile">> THEN <<K_src, K_dest>> ELSE <<K_oldPath, K_newPath>>

C3_Request(rec) ==
  LET parsed == ParsedBody(rec.req.body) IN
  IF ~parsed.ok THEN rec.calls = <<>>
  ELSE LET first == ResolvePath(BASE_DIR, Get(parsed.v, TwoPathKeys(rec)[1]))
           second == ResolvePath(BASE_DIR, Get(parsed.v, TwoPathKeys(rec)[2]))
       IN /\ (~first.ok \/ ~second.ok) => Refused(rec, 500)
          /\ rec.calls # <<>> =>
               /\ rec.resolved = <<first, second>>
               /\ Len(rec.calls) = 1
               /\ rec.calls[1].op =
                    (IF rec.key.path = <<"/copyFile">> THEN "copyFile" ELSE "rename")
               /\ rec.calls[1].path = first.path
               /\ rec.calls[1].dest = second.path
          /\ (first.ok /\ second.ok /\ ~StreamFailed(rec)) => Len(rec.calls) = 1

\* C3: copyFile and rename call their primitive only with both of their
\* paths resolved and accepted, on the two resolved paths; when the
\* resolver refuses either path the request fails with no primitive called.
C3_BothPathsResolved ==
  \A r \in Rid :
    (Past(reqs[r]) /\ reqs[r].key.path \in {<<"/copyFile">>, <<"/rename">>})
      => C3_Request(reqs[r])

\* C3 witness: a rename from a path inside the root to a path outside it
\* has failed without a call.
C3_Witness ==
  \E r \in Rid :
    /\ reqs[r].pc = "done"
    /\ reqs[r].key.path = <<"/rename">>
    /\ ParsedBody(reqs[r].req.body).ok
    /\ ResolvePath(BASE_DIR, Get(ParsedBody(reqs[r].req.body).v, K_oldPath)).ok
    /\ ~ResolvePath(BASE_DIR, Get(ParsedBody(reqs[r].req.body).v, K_newPath)).ok
    /\ Get(ParsedBody(reqs[r].req.body).v, K_newPath).t = "str"
    /\ reqs[r].calls = <<>>

\* p is a relative path that stays inside the root
ValidRelative(p) ==
  ~StartsWith(p, SLASH) /\ Within(BASE_DIR, PathResolve(BASE_DIR, p))

\* C4: for a relative path p the resolver gives the same result for p and
\* for "/" + p; when p stays inside the root both are accepted and yield the
\* same absolute path under the root.
C4_LeadingSlash ==
  (probe.fn = "resolve" /\ ~StartsWith(probe.arg, SLASH)) =>
    /\ probe.slashed = probe.out
    /\ ValidRelative(probe.arg) =>
         /\ probe.out.ok /\ probe.slashed.ok
         /\ probe.slashed.path = probe.out.path
         /\ probe.out.path = PathResolve(BASE_DIR, probe.arg)
         /\ Within(BASE_DIR, probe.out.path)

\* C4 witness: the resolver has accepted a relative path with a ".."
\* segment, with and without a leading "/", below the root.
C4_Witness ==
  /\ probe.fn = "resolve"
  /\ probe.arg = <<"a", "/", ".", ".", "/", "b">>
  /\ probe.out.ok /\ probe.slashed.ok
  /\ probe.slashed.path = BASE_DIR \o <<"/", "b">>

\* C5 (as stated): for a valid relative path p, resolving the resolver's
\* result again gives the same result.
C5_Idempotent ==
  (probe.fn = "resolve" /\ ValidRelative(probe.arg)) => probe.again = probe.out

\* C5 (amended): for a valid relative path p, the resolver takes its own
\* result as a path relative to the root: resolving it again is accepted and
\* gives the root followed by the first result.
C5_Rerooted ==
  (probe.fn = "resolve" /\ ValidRelative(probe.arg)) =>
    /\ probe.out.ok /\ probe.again.ok
    /\ probe.again.path = BASE_DIR \o probe.out.path
    /\ probe.again.path # probe.out.path

\* C5 witness: the path a, resolved twice, is s/d/a below the root.
C5_Witness ==
  /\ probe.fn = "resolve"
  /\ probe.arg = P_a
  /\ probe.out = [ok |-> TRUE, path |-> BASE_DIR \o <<"/", "a">>]
  /\ probe.again = [ok |-> TRUE, path |-> BASE_DIR \o BASE_DIR \o <<"/", "a">>]

\* the request lies under the API prefix and its method and path are no key
\* of the route table
Unmatched(rec) ==
  /\ rec.pc # "idle"
  /\ UnderPrefix(rec.req.url, API_PREFIX)
  /\ RouteKey(rec.req.method, RoutePath(rec.req.url)) \notin RouteTable

\* no handler ran for the request and no primitive was called
NoHandlerRan(rec) ==
  /\ rec.pc = "done"
  /\ rec.key = NoKey
  /\ rec.resolved = <<>>
  /\ rec.calls = <<>>

\* C6 (as stated): an unmatched request under the prefix is answered 404
\* with {error: 'Route not found'}; no handler runs, no primitive is called.
C6_UnmatchedIs404 ==
  \A r \in Rid :
    Unmatched(reqs[r]) =>
      /\ NoHandlerRan(reqs[r])
      /\ reqs[r].res = [status |-> 404, body |-> ROUTE_NOT_FOUND]

\* C6 (amended): for an unmatched request under the prefix no handler runs
\* and no primitive is called; it is answered 404 with {error: 'Route not
\* found'}, except that the withfs server answers every OPTIONS request with
\* 200 and no body.
C6_UnmatchedNeverHandled ==
  \A r \in Rid :
    Unmatched(reqs[r]) =>
      /\ NoHandlerRan(reqs[r])
      /\ reqs[r].res =
           IF gateway.entry = "withfs" /\ reqs[r].req.method = "OPTIONS"
           THEN [status |-> 200, body |-> [empty |-> TRUE]]
           ELSE [status |-> 404, body |-> ROUTE_NOT_FOUND]

\* C6 witness: the withfs server has answered 404 to a POST on the path of
\* the GET route readFile.
C6_Witness ==
  \E r \in Rid :
    /\ gateway.entry = "withfs"
    /\ Unmatched(reqs[r])
    /\ reqs[r].req.method = "POST"
    /\ RoutePath(reqs[r].req.url) = <<"/readFile">>
    /\ reqs[r].res = [status |-> 404, body |-> ROUTE_NOT_FOUND]

\* C7: a POST to /writeFile whose body has no byte is answered 400 and no
\* primitive is called, whatever its content type and its path parameter.
C7_EmptyWriteRefused ==
  \A r \in Rid :
    (IsPost(reqs[r], "/writeFile") /\ Past(reqs[r]) /\ ~StreamFailed(reqs[r])
       /\ reqs[r].req.body = <<>>)
      => /\ Refused(reqs[r], 400)
         /\ reqs[r].resolved = <<>>

\* C7 witness: an empty text/plain writeFile to a path outside the root has
\* been answered 400.
C7_Witness ==
  \E r \in Rid :
    /\ IsPost(reqs[r], "/writeFile")
    /\ reqs[r].req.contentType = CT_text
    /\ reqs[r].req.body = <<>>
    /\ QueryGet(reqs[r].req.url, "path") = JStr(P_up)
    /\ Refused(reqs[r], 400)

\* the rows of the decision table, tried in order; a query path is a path
\* parameter of the query that is not empty
TableRow(contentType, queryPath) ==
  CASE \E t \in {"application/octet-stream", "image/", "video/", "audio/",
                 "application/pdf"} : Includes(contentType, t) -> "binary"
    [] OTHER ->
       IF Includes(contentType, "text/plain") THEN "text"
       ELSE IF Includes(contentType, "application/json")
       THEN IF queryPath.t = "str" /\ queryPath.v # <<>> THEN "json" ELSE "structured"
       ELSE "unknown"

RowType(row) ==
  CASE row = "binary" -> JStr(S_binary)
    [] row = "text" -> JStr(S_text)
    [] row = "json" -> JStr(S_json)
    [] row = "unknown" -> JStr(S_unknown)

\* the primitive of a write route
RouteOp(route) == IF route = "/writeFile" THEN "writeFile" ELSE "appendFile"

\* the payload of a structured body
StructuredPayload(route, body) ==
  IF route = "/writeFile"
  THEN WriteFilePayload(Get(body, K_data), GetOr(body, K_type, JStr(S_text)),
                        GetOr(body, K_encoding, JStr(ENC_UTF8)))
  ELSE AppendFilePayload(Get(body, K_data), GetOr(body, K_type, JStr(S_text)),
                         GetOr(body, K_encoding, JStr(ENC_UTF8)))

\* a request of a raw row calls the primitive of its route on the resolved
\* query path with the raw body, and reports the type of its row
C8_Raw(rec, route, row) ==
  /\ rec.calls # <<>> =>
       /\ rec.calls[1].path = ResolvePath(BASE_DIR, QueryGet(rec.req.url, "path")).path
       /\ rec.calls[1].data = rec.req.body
       /\ rec.calls[1].op = RouteOp(route)
  /\ rec.pc = "fs" =>
       /\ rec.ctx.body.type = RowType(row)
       /\ rec.ctx.body.path = QueryGet(rec.req.url, "path")
  /\ (rec.req.body # <<>> /\ ResolvePath(BASE_DIR, QueryGet(rec.req.url, "path")).ok)
       => Len(rec.calls) = 1

\* a request of the structured row calls the primitive of its route on the
\* resolved path of the body with the payload of the body
C8_Structured(rec, route) ==
  LET parsed == JsonParse(Utf8Decode(rec.req.body)) IN
  /\ rec.calls # <<>> =>
       /\ rec.calls[1].path = ResolvePath(BASE_DIR, Get(parsed.v, K_path)).path
       /\ rec.calls[1].data = StructuredPayload(route, parsed.v).bytes
       /\ rec.calls[1].op = RouteOp(route)
       /\ rec.pc = "fs" =>
            /\ rec.ctx.body.type = GetOr(parsed.v, K_type, JStr(S_text))
            /\ rec.ctx.body.path = Get(parsed.v, K_path)
  /\ (/\ rec.req.body # <<>>
      /\ parsed.ok
      /\ Truthy(Get(parsed.v, K_path))
      /\ ResolvePath(BASE_DIR, Get(parsed.v, K_path)).ok
      /\ Get(parsed.v, K_data).t \notin {"undef", "null"}
      /\ StructuredPayload(route, parsed.v).ok
      /\ StructuredPayload(route, parsed.v).bytes # <<>>) => Len(rec.calls) = 1

\* C8: writeFile and appendFile follow the decision table: the row is the
\* first whose content-type test holds (binary types, text/plain,
\* application/json with a query path, application/json without one,
\* anything else); every row but the structured one takes the path from the
\* query and writes the raw body; only the structured row reads the body's
\* path and data.
C8_DecisionTable ==
  \A r \in Rid : \A route \in WriteRoutes :
    (IsPost(reqs[r], route) /\ Past(reqs[r]) /\ ~StreamFailed(reqs[r])) =>
      IF TableRow(reqs[r].req.contentType, QueryGet(reqs[r].req.url, "path")) = "structured"
      THEN C8_Structured(reqs[r], route)
      ELSE C8_Raw(reqs[r], route,
                  TableRow(reqs[r].req.contentType, QueryGet(reqs[r].req.url, "path")))

\* C8 witness: an application/json request with the query path a, whose body
\* names the path b, is about to write its raw body to a.
C8_Witness ==
  \E r \in Rid :
    /\ IsPost(reqs[r], "/writeFile")
    /\ reqs[r].pc = "fs"
    /\ reqs[r].req.contentType = CT_json
    /\ reqs[r].req.body = B_body
    /\ QueryGet(reqs[r].req.url, "path") = JStr(P_a)
    /\ reqs[r].pending.path = BASE_DIR \o SLASH \o P_a
    /\ reqs[r].pending.data = B_body
    /\ reqs[r].ctx.body.type = JStr(S_json)

C9_Structured(rec, route) ==
  IF rec.req.body = <<>> THEN Refused(rec, 400)
  ELSE LET parsed == JsonParse(Utf8Decode(rec.req.body)) IN
       (parsed.ok /\ parsed.v.t # "null") =>
         /\ ~Truthy(Get(parsed.v, K_path)) => Refused(rec, 400)
         /\ Get(parsed.v, K_data).t \in {"undef", "null"} => Refused(rec, 400)
         /\ (/\ Get(parsed.v, K_data).t \notin {"undef", "null"}
             /\ StructuredPayload(route, parsed.v).ok
             /\ StructuredPayload(route, parsed.v).bytes = <<>>) => Refused(rec, 400)

NoTargetPath(rec) ==
  /\ QueryGet(rec.req.url, "path").t = "undef"
  /\ TableRow(rec.req.contentType, JUndef) = "structured" =>
       /\ JsonParse(Utf8Decode(rec.req.body)).ok
       /\ JsonParse(Utf8Decode(rec.req.body)).v.t = "obj"
       /\ Get(JsonParse(Utf8Decode(rec.req.body)).v, K_path).t = "undef"

\* C10 (as stated): a writeFile or appendFile request with a body that is
\* not empty and with no target path is answered 400, whatever its content
\* type.
C10_NoPathIs400 ==
  \A r \in Rid : \A route \in WriteRoutes :
    (IsPost(reqs[r], route) /\ Past(reqs[r]) /\ ~StreamFailed(reqs[r])
       /\ reqs[r].req.body # <<>> /\ NoTargetPath(reqs[r]))
      => reqs[r].res.status = 400

\* what the handler of a matched request does up to its filesystem call
HandlerOutcome(rec) ==
  IF rec.key \in BodyRoutes
  THEN RunBodyHandler(BASE_DIR, rec.key, rec.req, rec.req.body)
  ELSE RunQueryHandler(BASE_DIR, rec.key, rec.req)

\* the answers of the decoder's validation
ValidationFailures ==
  {FlatError("Empty request body"), FlatError("Path is required"),
   FlatError("Data is required"), FlatError("No data to write"),
   FlatError("No data to append")}

C11_Answer(rec) ==
  /\ rec.res.status \in {200, 400, 500}
  /\ rec.res.status = 400 =>
       /\ rec.key.path \in {<<"/writeFile">>, <<"/appendFile">>}
       /\ rec.res.body \in ValidationFailures
  /\ rec.res.status = 500 =>
       rec.res.body = Envelope(rec.res.body.error) /\ rec.res.body.shape = "envelope"
  /\ ~StreamFailed(rec) =>
       /\ HandlerOutcome(rec).kind = "throw" =>
            rec.res = [status |-> 500, body |-> Envelope(HandlerOutcome(rec).message)]
       /\ HandlerOutcome(rec).kind = "respond" =>
            /\ rec.res = [status |-> HandlerOutcome(rec).status,
                          body |-> HandlerOutcome(rec).body]
            /\ rec.res.status \in {200, 400}
       /\ HandlerOutcome(rec).kind = "call" => rec.res.status \in {200, 500}

C11_State ==
  \A r \in Rid :
    (reqs[r].pc = "done" /\ reqs[r].key \in RouteTable) => C11_Answer(reqs[r])

C11_Step ==
  \A r \in Rid :
    (reqs[r].pc = "fs" /\ reqs'[r].pc = "done") =>
      IF FsExec(fs, reqs[r].pending).ok
      THEN reqs'[r].res.status = 200
      ELSE reqs'[r].res =
             [status |-> 500, body |-> Envelope(FsExec(fs, reqs[r].pending).error)]

\* C11: an exception of a matched handler (the resolver's, JSON.parse's, the
\* decoding's, or the failure of the primitive on the disk it ran on) is
\* answered 500 with {error: {message: the exception's message, status:
\* 500}}; a 400 is always one of the validation answers of writeFile and
\* appendFile.
C11_ExceptionsAre500 == [](C11_State) /\ [][C11_Step]_vars

\* C11 witness: an rmdir of the directory sub, which holds a file, has been
\* answered 500 with the primitive's error.
C11_Witness ==
  \E r \in Rid :
    /\ reqs[r].pc = "done"
    /\ reqs[r].key = RouteKey("DELETE", <<"/rmdir">>)
    /\ Len(reqs[r].calls) = 1
    /\ reqs[r].calls[1].path = BASE_DIR \o SLASH \o P_sub
    /\ reqs[r].res = [status |-> 500, body |-> Envelope("ENOTEMPTY")]

----------------------------------------------------------------------------
(* Properties of requests issued one after the other                       *)

\* str as UTF-8 bytes, the replacement character included
RECURSIVE TextBytes(_)
TextBytes(str) ==
  IF str = <<>> THEN <<>>
  ELSE (IF Head(str) = FFFD THEN <<239, 191, 189>> ELSE <<CodeOf[Head(str)]>>)
       \o TextBytes(Tail(str))

\* a writeFile of a raw text/plain or application/octet-stream body, with
\* the path in the query, that has been answered 200
RawWrite(rec) ==
  /\ rec.pc = "done"
  /\ IsPost(rec, "/writeFile")
  /\ rec.req.contentType \in {CT_text, CT_octet}
  /\ QueryGet(rec.req.url, "path") # JUndef
  /\ rec.res.status = 200

\* an answered GET /readFile of the path p
Reads(rec, p) ==
  /\ rec.pc = "done"
  /\ rec.req.method = "GET"
  /\ rec.req.url.path = <<API_PREFIX, "/readFile">>
  /\ QueryGet(rec.req.url, "path") = p

\* the encoding a readFile request reads with
ReadEncoding(rec) ==
  IF QueryGet(rec.req.url, "encoding") = JUndef THEN ENC_UTF8
  ELSE QueryGet(rec.req.url, "encoding").v

\* the bytes the text of a readFile answer stands for
ReadBytes(rec) ==
  IF ReadEncoding(rec) = ENC_HEX THEN HexDecode(rec.res.body.data)
  ELSE TextBytes(rec.res.body.data)

\* request j reads the path request i wrote, with nothing but reads between
WriteThenRead(i, j) ==
  /\ i < j
  /\ RawWrite(reqs[i])
  /\ Reads(reqs[j], QueryGet(reqs[i].req.url, "path"))
  /\ \A k \in DOMAIN reqs : (i < k /\ k < j) => reqs[k].req.method = "GET"

\* C12 as stated: after a raw write of the bytes B to p, a read of p
\* succeeds and returns exactly B, whatever B is and however p is read.
C12_ReadReturnsExactlyB ==
  \A i, j \in DOMAIN reqs :
    WriteThenRead(i, j) =>
      /\ reqs[j].res.status = 200
      /\ ReadBytes(reqs[j]) = reqs[i].req.body

\* C12 (amended): a raw write of the bytes B to p leaves p holding exactly
\* B, also when p held other content. A later read of p with the encoding
\* hex returns B digit for digit; a read with utf8 (the default) returns B
\* decoded as UTF-8, which is B's text when B is ASCII text and holds a
\* replacement character for every byte that is no UTF-8.
C12_RawWriteReadBack ==
  /\ \A i \in DOMAIN reqs :
       (RawWrite(reqs[i]) /\ \A k \in DOMAIN reqs : k > i => reqs[k].pc = "idle") =>
         /\ reqs[i].calls[1].path \in DOMAIN fs.files
         /\ fs.files[reqs[i].calls[1].path] = reqs[i].req.body
  /\ \A i, j \in DOMAIN reqs :
       WriteThenRead(i, j) =>
         /\ reqs[j].res.status = 200
         /\ ReadEncoding(reqs[j]) = ENC_HEX => ReadBytes(reqs[j]) = reqs[i].req.body
         /\ ReadEncoding(reqs[j]) = ENC_UTF8 =>
              /\ reqs[j].res.body.data = Utf8Decode(reqs[i].req.body)
              /\ (\A n \in 1..Len(reqs[i].req.body) : reqs[i].req.body[n] < 128) =>
                   ReadBytes(reqs[j]) = reqs[i].req.body

\* C12 witness: the file a, which held "ok", is written with the text "hi"
\* and read back as "hi".
C12_Witness ==
  \E i, j \in DOMAIN reqs :
    /\ WriteThenRead(i, j)
    /\ QueryGet(reqs[i].req.url, "path") = JStr(P_a)
    /\ InitialDisk.files[BASE_DIR \o SLASH \o P_a] # B_hi
    /\ reqs[i].req.body = B_hi
    /\ reqs[j].res = [status |-> 200, body |-> [data |-> T_hi]]

\* the text without the white space between its tokens, which JSON.parse
\* skips; inString: the text starts inside a string
RECURSIVE SkipSpace(_, _)
SkipSpace(text, inString) ==
  IF text = <<>> THEN <<>>
  ELSE IF inString /\ Head(text) = "\\" /\ Len(text) >= 2
  THEN <<text[1], text[2]>> \o SkipSpace(SubSeq(text, 3, Len(text)), TRUE)
  ELSE IF <<Head(text)>> = QUOTE THEN QUOTE \o SkipSpace(Tail(text), ~inString)
  ELSE IF ~inString /\ Head(text) \in {" ", NL} THEN SkipSpace(Tail(text), FALSE)
  ELSE <<Head(text)>> \o SkipSpace(Tail(text), inString)

\* JSON.parse on the text of a file: the data value whose JSON text it is
DataValue == [text \in {Stringify(d, FALSE, <<>>) : d \in JsonData} |->
                CHOOSE d \in JsonData : Stringify(d, FALSE, <<>>) = text]

ParseData(text) ==
  IF SkipSpace(text, FALSE) \in DOMAIN DataValue
  THEN [ok |-> TRUE, v |-> DataValue[SkipSpace(text, FALSE)]]
  ELSE [ok |-> FALSE, error |-> SYNTAX_ERROR]

\* an application/json writeFile without a query, whose body is an object
\* with a path, a data that is not null and the type json
StructuredJsonWrite(rec) ==
  /\ rec.pc = "done"
  /\ IsPost(rec, "/writeFile")
  /\ Includes(rec.req.contentType, "application/json")
  /\ QueryGet(rec.req.url, "path") = JUndef
  /\ JsonParse(Utf8Decode(rec.req.body)).ok
  /\ JsonParse(Utf8Decode(rec.req.body)).v.t = "obj"
  /\ Get(JsonParse(Utf8Decode(rec.req.body)).v, K_path).t = "str"
  /\ Get(JsonParse(Utf8Decode(rec.req.body)).v, K_data).t \notin {"undef", "null"}
  /\ Get(JsonParse(Utf8Decode(rec.req.body)).v, K_type) = JStr(S_json)
  /\ Get(JsonParse(Utf8Decode(rec.req.body)).v, K_encoding) = JUndef

SentPath(rec) == Get(JsonParse(Utf8Decode(rec.req.body)).v, K_path)
SentData(rec) == Get(JsonParse(Utf8Decode(rec.req.body)).v, K_data)

\* request j reads as UTF-8 the path request i named in its body, with
\* nothing but reads between
JsonWriteThenRead(i, j) ==
  /\ i < j
  /\ StructuredJsonWrite(reqs[i])
  /\ Reads(reqs[j], SentPath(reqs[i]))
  /\ ReadEncoding(reqs[j]) = ENC_UTF8
  /\ \A k \in DOMAIN reqs : (i < k /\ k < j) => reqs[k].req.method = "GET"

\* C13: a structured writeFile {path, data, type: 'json'} of a data that is
\* not null is never refused by the decoder: it reaches fs.writeFile. When
\* the write is answered 200, a read of the path returns the data as JSON
\* text indented by two spaces, which parses to a value equal to the data.
C13_JsonRoundTrip ==
  /\ \A i \in DOMAIN reqs :
       StructuredJsonWrite(reqs[i]) =>
         /\ Len(reqs[i].calls) = 1
         /\ reqs[i].calls[1].op = "writeFile"
         /\ reqs[i].res.status \in {200, 500}
  /\ \A i, j \in DOMAIN reqs :
       (JsonWriteThenRead(i, j) /\ reqs[i].res.status = 200) =>
         /\ reqs[j].res.status = 200
         /\ reqs[j].res.body.data = Stringify(SentData(reqs[i]), TRUE, <<>>)
         /\ ParseData(reqs[j].res.body.data) = [ok |-> TRUE, v |-> SentData(reqs[i])]

\* C13 witness: the object {"k": 1} has been written to b and read back on
\* three lines, the middle one indented by two spaces.
C13_Witness ==
  \E i, j \in DOMAIN reqs :
    /\ JsonWriteThenRead(i, j)
    /\ SentData(reqs[i]) = JObj(<<Kv(<<"k">>, JNum(1))>>)
    /\ reqs[i].res.status = 200
    /\ reqs[j].res.status = 200
    /\ reqs[j].res.body.data =
         <<"{", NL, " ", " ">> \o QUOTE \o <<"k">> \o QUOTE \o <<":", " ", "1", NL, "}">>

\* an answered request of the given method and route whose primitive ran on
\* the path p of the root and succeeded
Succeeded(rec, method, route, p) ==
  /\ rec.pc = "done"
  /\ rec.req.method = method
  /\ rec.req.url.path = <<API_PREFIX, route>>
  /\ rec.res.status = 200
  /\ Len(rec.calls) = 1
  /\ rec.calls[1].path = BASE_DIR \o SLASH \o p

\* the directory b has been made with recursive = true, the file b/x has
\* been written, and request r is an answered readdir of b
ListedAfterOneWrite(r) ==
  /\ r = 3
  /\ Succeeded(reqs[1], "POST", "/mkdir", P_b)
  /\ reqs[1].calls[1].recursive = JBool(TRUE)
  /\ Succeeded(reqs[2], "POST", "/writeFile", P_b_x)
  /\ reqs[r].pc = "done"
  /\ reqs[r].req.method = "GET"
  /\ reqs[r].req.url.path = <<API_PREFIX, "/readdir">>
  /\ QueryGet(reqs[r].req.url, "path") = JStr(P_b)

\* C14 as stated: after mkdir of a directory and the write of one file in
\* it, readdir of the directory returns exactly one entry, named for the
\* file; with withFileTypes=true the entry of the response carries
\* isFile = true and isDirectory = false.
C14_ListingReportsTypes ==
  \A r \in DOMAIN reqs :
    ListedAfterOneWrite(r) =>
      /\ reqs[r].res.status = 200
      /\ Cardinality(reqs[r].res.body.files) = 1
      /\ IF QueryGet(reqs[r].req.url, "withFileTypes") = JStr(S_true)
         THEN \A e \in reqs[r].res.body.files :
                /\ e.name = <<"x">>
                /\ "isFile" \in DOMAIN e /\ e.isFile = TRUE
                /\ "isDirectory" \in DOMAIN e /\ e.isDirectory = FALSE
         ELSE reqs[r].res.body.files = {<<"x">>}

\* C14 witness: the listing of b with withFileTypes=true has been answered
\* with one entry, which holds the name x and the directory and nothing else.
C14_Witness ==
  \E r \in DOMAIN reqs :
    /\ ListedAfterOneWrite(r)
    /\ QueryGet(reqs[r].req.url, "withFileTypes") = JStr(S_true)
    /\ reqs[r].res =
         [status |-> 200,
          body |-> [files |-> {[name |-> <<"x">>, parentPath |-> BASE_DIR \o SLASH \o P_b]}]]

\* an answered rename of one name of the root to another that succeeded
Renamed(rec) ==
  /\ rec.pc = "done"
  /\ rec.req.method = "PUT"
  /\ rec.req.url.path = <<API_PREFIX, "/rename">>
  /\ rec.res.status = 200
  /\ Len(rec.calls) = 1
  /\ rec.calls[1].path # rec.calls[1].dest

\* an answered GET /stat whose path resolves to p
Stats(rec, p) ==
  /\ rec.pc = "done"
  /\ rec.req.method = "GET"
  /\ rec.req.url.path = <<API_PREFIX, "/stat">>
  /\ ResolvePath(BASE_DIR, QueryGet(rec.req.url, "path")) = [ok |-> TRUE, path |-> p]

\* request j follows the rename i with nothing but reads between
AfterRename(i, j) ==
  /\ i < j
  /\ Renamed(reqs[i])
  /\ reqs[j].pc = "done"
  /\ \A k \in DOMAIN reqs : (i < k /\ k < j) => reqs[k].req.method = "GET"

C15_State ==
  \A i, j \in DOMAIN reqs :
    AfterRename(i, j) =>
      /\ Stats(reqs[j], reqs[i].calls[1].path) =>
           reqs[j].res = [status |-> 500, body |-> Envelope("ENOENT")]
      /\ Stats(reqs[j], reqs[i].calls[1].dest) =>
           /\ reqs[j].res.status = 200
           /\ (i = 1 /\ reqs[i].calls[1].path \in DOMAIN InitialDisk.files) =>
                reqs[j].res.body.stats =
                  [isFile |-> TRUE, isDirectory |-> FALSE, isSymbolicLink |-> FALSE,
                   size |-> Len(InitialDisk.files[reqs[i].calls[1].path])]
      /\ (i = 1 /\ reqs[i].calls[1].path \in DOMAIN InitialDisk.files
            /\ Reads(reqs[j], JStr(P_b)) /\ reqs[i].calls[1].dest = BASE_DIR \o SLASH \o P_b
            /\ ReadEncoding(reqs[j]) = ENC_UTF8) =>
           reqs[j].res = [status |-> 200,
                          body |-> [data |-> Utf8Decode(InitialDisk.files[reqs[i].calls[1].path])]]

C15_Step ==
  \A r \in DOMAIN reqs :
    (/\ reqs[r].pc = "fs"
     /\ reqs[r].pending.op = "rename"
     /\ reqs'[r].pc = "done"
     /\ reqs'[r].res.status = 200
     /\ IsFile(fs, reqs[r].pending.path)
     /\ reqs[r].pending.path # reqs[r].pending.dest) =>
      /\ ~Exists(fs', reqs[r].pending.path)
      /\ IsFile(fs', reqs[r].pending.dest)
      /\ fs'.files[reqs[r].pending.dest] = fs.files[reqs[r].pending.path]

\* C15: the step of a successful rename of a file a to another name b
\* leaves no a and leaves b holding what a held. Until the next request that
\* is no read, stat of a is answered with an error (500, ENOENT) and stat of
\* b with 200 and the description of a file of a's size.
C15_RenameMoves == [](C15_State) /\ [][C15_Step]_vars

\* C15 witness: a has been renamed to b; stat of a has failed and stat of b
\* has found a file of two bytes.
C15_Witness ==
  /\ Renamed(reqs[1])
  /\ Stats(reqs[2], BASE_DIR \o SLASH \o P_a)
  /\ reqs[2].res.status = 500
  /\ Stats(reqs[3], BASE_DIR \o SLASH \o P_b)
  /\ reqs[3].res.status = 200
  /\ reqs[3].res.body.stats.size = 2
  /\ fs.files[BASE_DIR \o SLASH \o P_b] = <<111, 107>>

\* the flag a request passes to its primitive: the value of the body, or
\* dflt when the body leaves the flag out
PassedFlag(rec, flag, dflt) ==
  IF Get(ParsedBody(rec.req.body).v, flag) = JUndef THEN JBool(dflt)
  ELSE Get(ParsedBody(rec.req.body).v, flag)

\* a request to the given route that has called its primitive
Called(rec, route) ==
  /\ Past(rec)
  /\ rec.req.url.path = <<API_PREFIX, route>>
  /\ Len(rec.calls) = 1

C16_State ==
  \A r \in Rid :
    /\ Called(reqs[r], "/mkdir") =>
         reqs[r].calls[1].recursive = PassedFlag(reqs[r], K_recursive, TRUE)
    /\ Called(reqs[r], "/rmdir") =>
         reqs[r].calls[1].recursive = PassedFlag(reqs[r], K_recursive, FALSE)
    /\ Called(reqs[r], "/rm") =>
         /\ reqs[r].calls[1].recursive = PassedFlag(reqs[r], K_recursive, FALSE)
         /\ reqs[r].calls[1].force = PassedFlag(reqs[r], K_force, FALSE)

\* the step of rmdir or rm on a directory that holds something, and of rm on
\* a missing path, for a body without the flags
C16_Step ==
  \A r \in Rid :
    (/\ reqs[r].pc = "fs"
     /\ reqs'[r].pc = "done"
     /\ reqs[r].pending.op \in {"rmdir", "rm"}
     /\ Get(ParsedBody(reqs[r].req.body).v, K_recursive) = JUndef
     /\ Get(ParsedBody(reqs[r].req.body).v, K_force) = JUndef
     /\ \/ IsDir(fs, reqs[r].pending.path) /\ Children(fs, reqs[r].pending.path) # {}
        \/ reqs[r].pending.op = "rm" /\ ~Exists(fs, reqs[r].pending.path)) =>
      /\ fs' = fs
      /\ reqs'[r].res.status = 500

\* C16: rmdir and rm pass recursive = false (rm also force = false) to the
\* primitive when the body leaves the flag out, mkdir passes recursive =
\* true, and a flag of the body is passed on as it is. With the flags left
\* out, rmdir and rm of a directory that holds something fail and remove
\* nothing, and rm of a missing path fails.
C16_FlagDefaults == [](C16_State) /\ [][C16_Step]_vars

\* C16 witness: an rm of the directory sub without flags has failed, and
\* the file in sub is still there.
C16_Witness ==
  \E r \in Rid :
    /\ reqs[r].pc = "done"
    /\ Called(reqs[r], "/rm")
    /\ Get(ParsedBody(reqs[r].req.body).v, K_recursive) = JUndef
    /\ Get(ParsedBody(reqs[r].req.body).v, K_force) = JUndef
    /\ reqs[r].calls[1] = [op |-> "rm", path |-> BASE_DIR \o SLASH \o P_sub,
                           recursive |-> JBool(FALSE), force |-> JBool(FALSE)]
    /\ reqs[r].res = [status |-> 500, body |-> Envelope("ERR_FS_EISDIR")]
    /\ IsFile(fs, BASE_DIR \o SLASH \o P_sub_f)

\* an answered writeFile or appendFile request that succeeded
Written(rec) ==
  /\ rec.pc = "done"
  /\ rec.req.method = "POST"
  /\ rec.req.url.path \in {<<API_PREFIX, "/writeFile">>, <<API_PREFIX, "/appendFile">>}
  /\ rec.res.status = 200

\* C17 as stated: the type of every successful writeFile and appendFile
\* answer is one of text, json, binary and unknown, structured bodies with
\* any type included.
C17_TypeIsOneOfFour ==
  \A r \in Rid :
    Written(reqs[r]) =>
      reqs[r].res.body.type \in {JStr(S_text), JStr(S_json), JStr(S_binary), JStr(S_unknown)}

\* C17 (amended): a successful write with a raw body reports the type of
\* its row of the content-type table, one of text, json, binary and
\* unknown; a successful write with a structured body reports the type of
\* the body as it was sent (buffer and any other word included), and text
\* when the body has none.
C17_TypeTag ==
  \A r \in Rid :
    Written(reqs[r]) =>
      IF TableRow(reqs[r].req.contentType, QueryGet(reqs[r].req.url, "path")) = "structured"
      THEN reqs[r].res.body.type =
             GetOr(ParsedBody(reqs[r].req.body).v, K_type, JStr(S_text))
      ELSE /\ reqs[r].res.body.type =
                RowType(TableRow(reqs[r].req.contentType, QueryGet(reqs[r].req.url, "path")))
           /\ reqs[r].res.body.type \in
                {JStr(S_text), JStr(S_json), JStr(S_binary), JStr(S_unknown)}

\* C17 witness: a structured write of type buffer has been answered 200,
\* with the type buffer.
C17_Witness ==
  \E r \in Rid :
    /\ Written(reqs[r])
    /\ TableRow(reqs[r].req.contentType, QueryGet(reqs[r].req.url, "path")) = "structured"
    /\ Get(ParsedBody(reqs[r].req.body).v, K_type) = JStr(S_buffer)
    /\ reqs[r].res.body.type = JStr(S_buffer)

\* the routes of the table that serve the method name
RoutesOf(name) == {k \in RouteTable : k.path = <<"/" \o name>>}

\* the list names each of the methods once, each name has one route, and
\* every route but the root and the list itself is named
MatchesRouteTable(methods) ==
  /\ Len(methods) = 14
  /\ \A i, j \in 1..Len(methods) : methods[i] = methods[j] => i = j
  /\ \A i \in 1..Len(methods) : Cardinality(RoutesOf(methods[i])) = 1
  /\ \A k \in RouteTable :
       k.path \notin {<<"/">>, <<"/methods">>} =>
         \E i \in 1..Len(methods) : k \in RoutesOf(methods[i])

\* C18: GET /methods is answered 200 with the same list whatever requests
\* came before and whatever the disk holds: fourteen names, no name twice,
\* each with exactly one route "/" + name in the route table, and every
\* route other than / and /methods named.
C18_MethodsList ==
  \A r \in Rid :
    (reqs[r].pc = "done" /\ reqs[r].key = RouteKey("GET", <<"/methods">>)) =>
      /\ reqs[r].res = [status |-> 200, body |-> [methods |-> METHODS]]
      /\ reqs[r].calls = <<>>
      /\ MatchesRouteTable(reqs[r].res.body.methods)

\* C18 witness: the list has been returned in a behaviour in which another
\* request changed the disk.
C18_Witness ==
  \E r \in Rid :
    /\ reqs[r].pc = "done"
    /\ reqs[r].key = RouteKey("GET", <<"/methods">>)
    /\ reqs[r].res.status = 200
    /\ Len(reqs[r].res.body.methods) = 14
    /\ fs # InitialDisk

\* the routes that work on the filesystem: all but the root and the list of
\* methods
FsRoutes == RouteTable \ {RouteKey("GET", <<"/">>), RouteKey("GET", <<"/methods">>)}

C20_State ==
  \A r \in Rid :
    reqs[r].pc # "idle" =>
      /\ Len(reqs[r].calls) <= 1
      /\ reqs[r].pc = "fs" => reqs[r].calls = <<reqs[r].pending>>
      /\ (reqs[r].pc = "done" /\ reqs[r].res.status = 200 /\ reqs[r].key \in FsRoutes) =>
           Len(reqs[r].calls) = 1
      /\ (reqs[r].pc = "done" /\ reqs[r].res.status \in {400, 404}) => reqs[r].calls = <<>>
      /\ (\E i \in 1..Len(reqs[r].resolved) : ~reqs[r].resolved[i].ok) => reqs[r].calls = <<>>
      /\ reqs[r].pc \in {"body", "passed"} => reqs[r].calls = <<>>

\* a call is made once and stays as it is; the disk changes only in the step
\* in which a pending call returns, and only as that call changes it; an
\* answered request does nothing more
C20_Step ==
  /\ \A r \in Rid :
       /\ (reqs[r].pc # "idle" /\ reqs[r].calls # <<>>) => reqs'[r].calls = reqs[r].calls
       /\ reqs[r].pc = "done" => reqs'[r] = reqs[r]
       /\ reqs[r].pc = "fs" => reqs'[r].pc \in {"fs", "done"}
  /\ fs' # fs =>
       \E r \in Rid :
         /\ reqs[r].pc = "fs"
         /\ reqs'[r].pc = "done"
         /\ fs' = FsExec(fs, reqs[r].pending).disk

\* C20: a request calls at most one primitive, once: exactly one when it is
\* answered 200 on a route of the filesystem, none when it is answered 400
\* or 404 or when the resolver rejects one of its paths. A call that failed
\* is not made again and no second call follows.
C20_OnePrimitive == [](C20_State) /\ [][C20_Step]_vars

\* C20 witness: one request has been answered 200 after its one call, and
\* another has been answered 500 after its one call failed.
C20_Witness ==
  \E r, q \in Rid :
    /\ reqs[r].pc = "done" /\ reqs[r].res.status = 200
    /\ reqs[r].key \in FsRoutes /\ Len(reqs[r].calls) = 1
    /\ reqs[q].pc = "done" /\ reqs[q].res.status = 500
    /\ Len(reqs[q].calls) = 1
    /\ reqs[q].res.body.error \in {"ENOENT", "ENOTEMPTY", "EISDIR", "EEXIST"}

\* a request under the API prefix that has arrived and is not yet answered
Waiting(rec) ==
  rec.pc \notin {"idle", "done"} /\ UnderPrefix(rec.req.url, API_PREFIX)

\* the request has its one response
HasResponse(rec) == rec.pc = "done" /\ rec.res.status \in {200, 400, 404, 500}

\* a request under the prefix is taken into the handler table or answered,
\* and a response, once written, is the request's last step
C19_Step ==
  \A r \in Rid :
    /\ (reqs[r].pc = "idle" /\ reqs'[r].pc # "idle"
          /\ UnderPrefix(reqs'[r].req.url, API_PREFIX)) =>
         reqs'[r].pc \in {"body", "fs", "done"}
    /\ Waiting(reqs[r]) => (reqs'[r].pc \in {"body", "fs"} \/ HasResponse(reqs'[r]))
    /\ reqs[r].pc = "done" => reqs'[r] = reqs[r]

\* after a request has failed the next request is still taken
C19_Listening ==
  \A r, q \in Rid :
    (/\ reqs[r].pc = "done" /\ reqs[r].res.status \in {400, 404, 500}
     /\ reqs[q].pc = "idle"
     /\ \A p \in Rid : p < q => reqs[p].pc # "idle") =>
      ENABLED (\E req \in CoreInputs : Arrive(q, req))

\* C19: when body streams end or fail and primitives return, every request
\* under the API prefix gets a response, exactly one: it is answered on
\* arrival or waits for its body or its primitive, every waiting request is
\* eventually answered, and an answer is never followed by another. A failed
\* request leaves the gateway taking and answering later requests.
C19_EveryRequestAnswered ==
  /\ \A r \in Rid : Waiting(reqs[r]) ~> HasResponse(reqs[r])
  /\ [][C19_Step]_vars
  /\ [](C19_Listening)

\* C19 witness: the first request, to a route without a body, has failed
\* with 500 in its handler, that is on arrival; the second, which arrived
\* after it, has waited for its body and its primitive and has been
\* answered 200.
C19_Witness ==
  /\ reqs[1].pc = "done" /\ reqs[1].res.status = 500
  /\ reqs[1].key \in QueryRoutes /\ reqs[1].calls = <<>>
  /\ reqs[2].pc = "done" /\ reqs[2].res.status = 200
  /\ reqs[2].key \in BodyRoutes /\ Len(reqs[2].calls) = 1

\* two requests that have called their primitives on a common path
SamePath(a, b) ==
  /\ Len(a.calls) = 1
  /\ Len(b.calls) = 1
  /\ CallPaths(a.calls[1]) \cap CallPaths(b.calls[1]) # {}

\* while two requests wait for their primitives, either call may return
\* first
C21_State ==
  \A r, q \in Rid :
    (r # q /\ reqs[r].pc = "fs" /\ reqs[q].pc = "fs") =>
      (ENABLED FsReturn(r)) /\ (ENABLED FsReturn(q))

\* a step is the step of one request: it leaves the records of the other
\* requests as they are, whatever they wait for, and it takes the request
\* where its own handler takes it; no step changes the root or the route
\* table
C21_Step ==
  /\ gateway' = gateway
  /\ gateway.baseDir = BASE_DIR
  /\ gateway.routes = RouteTable
  /\ \A r, q \in Rid : (r # q /\ reqs'[r] # reqs[r]) => reqs'[q] = reqs[q]
  /\ \A r \in Rid :
       (reqs[r].pc = "body" /\ reqs'[r].pc # "body" /\ ~StreamFailed(reqs'[r])) =>
         reqs'[r] = AfterHandler(reqs[r].req, reqs[r].key, HandlerOutcome(reqs[r]))

\* C21: requests do not exclude each other and share nothing that changes.
\* A request runs its handler to its filesystem call whatever the other
\* request waits for, two pending calls can return in either order, also on
\* the same path, and the root and the route table never change.
C21_NoMutualExclusion == [](C21_State) /\ [][C21_Step]_vars

\* C21 witness: the request that arrived second has called its primitive
\* and has been answered 200 while the first still waits for its own call
\* on the same path.
C21_Witness ==
  /\ reqs[1].pc = "fs"
  /\ reqs[2].pc = "done"
  /\ reqs[2].res.status = 200
  /\ reqs[2].key \in BodyRoutes
  /\ SamePath(reqs[1], reqs[2])

\* the request has just been dispatched to the handler of a body route
Dispatched(old, new) ==
  old.pc = "idle" /\ new.pc # "idle" /\ new.key \in BodyRoutes

\* a request that waits for its body has resolved no path and called no
\* primitive, and a request whose body stream failed never did
C22_State ==
  \A r \in Rid :
    /\ reqs[r].pc = "body" =>
         /\ reqs[r].key \in BodyRoutes
         /\ reqs[r].resolved = <<>>
         /\ reqs[r].calls = <<>>
         /\ reqs[r].pending = NoCall
         /\ reqs[r].res = NoResponse
    /\ StreamFailed(reqs[r]) =>
         /\ reqs[r].resolved = <<>>
         /\ reqs[r].calls = <<>>

\* the handler of a body route first waits for the end of the body; it
\* resolves paths and calls its primitive only in later steps, and the
\* answer to a failed stream is final
C22_Step ==
  \A r \in Rid :
    /\ Dispatched(reqs[r], reqs'[r]) => reqs'[r].pc = "body"
    /\ (reqs[r].pc # "idle" /\ reqs[r].key \in BodyRoutes /\ reqs'[r] # reqs[r]) =>
         \/ /\ reqs[r].pc = "body"
            /\ \/ StreamFailed(reqs'[r])
               \/ reqs'[r] = AfterHandler(reqs[r].req, reqs[r].key, HandlerOutcome(reqs[r]))
         \/ reqs[r].pc = "fs"
    /\ StreamFailed(reqs[r]) => reqs'[r] = reqs[r]

\* C22: on the eight body routes the body is read to its end before the
\* operation runs: nothing is resolved, decoded or called while the body is
\* awaited, and an error of the body stream is answered with an error and
\* no call of a primitive.
C22_BodyFirst == [](C22_State) /\ [][C22_Step]_vars

\* C22 witness: the body stream of one request on a body route failed and
\* was answered 500 with no call, the other request's body ended and its
\* primitive was called.
C22_Witness ==
  /\ StreamFailed(reqs[1])
  /\ reqs[1].key \in BodyRoutes
  /\ reqs[1].calls = <<>>
  /\ reqs[2].pc = "done"
  /\ reqs[2].key \in BodyRoutes
  /\ Len(reqs[2].calls) = 1
  /\ reqs[2].res.status = 200

\* the request is a write that is past its body, whose stream did not fail
WriteRan(rec, route) ==
  IsPost(rec, route) /\ Past(rec) /\ ~StreamFailed(rec)

\* the payload the handler decodes from the request is not empty
PayloadDecoded(rec, route) ==
  IF TableRow(rec.req.contentType, QueryGet(rec.req.url, "path")) = "structured"
  THEN /\ rec.req.body # <<>>
       /\ JsonParse(Utf8Decode(rec.req.body)).ok
       /\ JsonParse(Utf8Decode(rec.req.body)).v.t = "obj"
       /\ Truthy(Get(JsonParse(Utf8Decode(rec.req.body)).v, K_path))
       /\ Get(JsonParse(Utf8Decode(rec.req.body)).v, K_data).t \notin {"undef", "null"}
       /\ StructuredPayload(route, JsonParse(Utf8Decode(rec.req.body)).v).ok
       /\ StructuredPayload(route, JsonParse(Utf8Decode(rec.req.body)).v).bytes # <<>>
  ELSE rec.req.body # <<>>

\* C23 (as stated): writeFile and appendFile pass the target path through
\* the resolver before the payload is decoded or checked for emptiness: a
\* request that names a path in its query has had it resolved, whatever its
\* payload.
C23_ResolveFirst ==
  \A r \in Rid : \A route \in WriteRoutes :
    (/\ WriteRan(reqs[r], route)
     /\ QueryGet(reqs[r].req.url, "path").t = "str"
     /\ QueryGet(reqs[r].req.url, "path").v # <<>>) => reqs[r].resolved # <<>>

\* C23 (amended): writeFile and appendFile decode and validate the payload,
\* then resolve the path, then call the primitive: the resolver is applied
\* exactly when the decoded payload is not empty, a validation failure is
\* answered 400 with no path resolved, also for a path outside the root, and
\* the primitive is called on the path the resolver gave.
C23_DecodeThenResolve ==
  \A r \in Rid : \A route \in WriteRoutes :
    WriteRan(reqs[r], route) =>
      /\ reqs[r].resolved # <<>> <=> PayloadDecoded(reqs[r], route)
      /\ Len(reqs[r].resolved) <= 1
      /\ (reqs[r].pc = "done" /\ reqs[r].res.status = 400) =>
           /\ reqs[r].res.body \in ValidationFailures
           /\ reqs[r].resolved = <<>>
           /\ reqs[r].calls = <<>>
      /\ reqs[r].calls # <<>> =>
           /\ reqs[r].resolved # <<>>
           /\ reqs[r].resolved[1].ok
           /\ reqs[r].calls[1].path = reqs[r].resolved[1].path

\* C23 witness: a write with an empty body to a path above the root has been
\* answered 400 for its payload, and the resolver was never applied.
C23_Witness ==
  \E r \in Rid :
    /\ WriteRan(reqs[r], "/writeFile")
    /\ QueryGet(reqs[r].req.url, "path") = JStr(P_up)
    /\ ~ResolvePath(BASE_DIR, JStr(P_up)).ok
    /\ reqs[r].req.body = <<>>
    /\ Refused(reqs[r], 400)
    /\ reqs[r].res.body = FlatError("No data to write")
    /\ reqs[r].resolved = <<>>

\* the request with its query string removed
WithoutQuery(req) == [req EXCEPT !.url = Url(req.url.path, <<>>)]

\* the handler an entry point selects for a request, NoKey when it selects
\* none
Selected(entry, req) ==
  IF Entry(entry, req).kind = "handle" THEN Entry(entry, req).key ELSE NoKey

\* C24 (as stated): dispatch depends only on the method and on the URL path
\* with the prefix and the query string removed: a request selects the
\* handler the same request without its query string selects, including a
\* GET to the bare prefix, which selects the info route with or without a
\* query string.
C24_QueryIgnored ==
  \A r \in Rid :
    (reqs[r].pc # "idle" /\ UnderPrefix(reqs[r].req.url, API_PREFIX)) =>
      reqs[r].key = Selected(gateway.entry, WithoutQuery(reqs[r].req))

\* C24 witness: a GET to the bare prefix with a query string has been
\* answered 404 and no handler was selected, while the same request without
\* the query string selects the info route.
C24_Witness ==
  \E r \in Rid :
    /\ reqs[r].pc = "done"
    /\ reqs[r].req.method = "GET"
    /\ reqs[r].req.url.path = <<API_PREFIX>>
    /\ reqs[r].req.url.hasQuery
    /\ reqs[r].key = NoKey
    /\ reqs[r].res = [status |-> 404, body |-> ROUTE_NOT_FOUND]
    /\ Selected(gateway.entry, WithoutQuery(reqs[r].req)) = RouteKey("GET", <<"/">>)

\* C25 (as stated): after any sequence of requests the root directory still
\* exists on disk at its original location: no rm, rmdir, rename or unlink
\* request removes or moves the root itself.
C25_RootStays == IsDir(fs, BASE_DIR)

\* C25 witness: an rm request with the path '' and recursive true has been
\* answered 200 after fs.rm was called on the root itself, and the root
\* directory is gone.
C25_Witness ==
  \E r \in Rid :
    /\ reqs[r].pc = "done"
    /\ reqs[r].key = RouteKey("DELETE", <<"/rm">>)
    /\ reqs[r].req.body = JsonBytes(PathBody(JStr(<<>>), JBool(TRUE), JUndef))
    /\ reqs[r].calls = <<[op |-> "rm", path |-> BASE_DIR,
                          recursive |-> JBool(TRUE), force |-> JBool(FALSE)]>>
    /\ reqs[r].res.status = 200
    /\ ~Exists(fs, BASE_DIR)

\* what the handler of the other write route does with the content type,
\* the query string and the body of the request
OtherWrite(rec, route) ==
  IF route = "/writeFile"
  THEN PostAppendFile(BASE_DIR, rec.req, rec.req.body)
  ELSE PostWriteFile(BASE_DIR, rec.req, rec.req.body)

\* two answers of the validation that differ in the wording at most
SameButText(a, b) ==
  \/ a = b
  \/ {a, b} = {FlatError("No data to write"), FlatError("No data to append")}

\* the request and the other handler's outcome on the same input agree
C26_Twin(rec, twin) ==
  /\ rec.pc = "fs" =>
       /\ twin.kind = "call"
       /\ twin.call.path = rec.pending.path
       /\ twin.call.data = rec.pending.data
       /\ {twin.call.op, rec.pending.op} = {"writeFile", "appendFile"}
       /\ twin.ctx.body.path = rec.ctx.body.path
       /\ twin.ctx.body.type = rec.ctx.body.type
       /\ twin.ctx.body.size = rec.ctx.body.size
       /\ twin.ctx.body.message # rec.ctx.body.message
       /\ rec.ctx.body.size = Len(rec.pending.data)
       /\ FsExec(fs, twin.call).ok = FsExec(fs, rec.pending).ok
  /\ (rec.pc = "done" /\ rec.calls = <<>>) =>
       \/ /\ twin.kind = "respond"
          /\ twin.status = rec.res.status
          /\ SameButText(twin.body, rec.res.body)
       \/ /\ twin.kind = "throw"
          /\ rec.res = [status |-> 500, body |-> Envelope(twin.message)]
  /\ (rec.pc = "done" /\ rec.calls # <<>>) =>
       /\ twin.kind = "call"
       /\ twin.call.path = rec.calls[1].path
       /\ twin.call.data = rec.calls[1].data
       /\ rec.res.status = 200 =>
            /\ rec.res.body.path = twin.ctx.body.path
            /\ rec.res.body.type = twin.ctx.body.type
            /\ rec.res.body.size = twin.ctx.body.size
            /\ rec.res.body.size = Len(rec.calls[1].data)

\* C26: writeFile and appendFile decode identically: on the same content
\* type, query string and raw body the two handlers give the same status,
\* and on success the same target path, payload bytes, type and size; they
\* differ in the primitive called and in the message texts only, and the
\* reported size is the number of bytes handed to the primitive.
C26_SameDecoding ==
  \A r \in Rid : \A route \in WriteRoutes :
    WriteRan(reqs[r], route) => C26_Twin(reqs[r], OtherWrite(reqs[r], route))

\* C26 witness: a writeFile and then an appendFile with the same content
\* type, query string and body were both answered 200 with the same path,
\* type and size, and the file holds the payload twice.
C26_Witness ==
  /\ WriteRan(reqs[1], "/writeFile")
  /\ WriteRan(reqs[2], "/appendFile")
  /\ reqs[1].req.contentType = reqs[2].req.contentType
  /\ reqs[1].req.url.query = reqs[2].req.url.query
  /\ reqs[1].req.body = reqs[2].req.body
  /\ reqs[1].pc = "done" /\ reqs[1].res.status = 200
  /\ reqs[2].pc = "done" /\ reqs[2].res.status = 200
  /\ reqs[1].calls[1].path = reqs[2].calls[1].path
  /\ reqs[1].calls[1].data = reqs[2].calls[1].data
  /\ reqs[1].res.body.size = Len(reqs[2].calls[1].data)
  /\ reqs[2].res.body.size = reqs[1].res.body.size
  /\ reqs[2].res.body.type = reqs[1].res.body.type
  /\ reqs[2].res.body.message # reqs[1].res.body.message
  /\ IsFile(fs, reqs[1].calls[1].path)
  /\ fs.files[reqs[1].calls[1].path] = reqs[1].calls[1].data \o reqs[2].calls[1].data

\* C27 (as stated): the object returned by configure({apiBase: A}) sends
\* every later request to a URL that starts with A, one trailing slash
\* removed, also after another call configure({apiBase: B}); two configured
\* objects do not affect each other's base URL.
C27_ModuleKeepsBase ==
  \A i \in 1..Len(probe.fetched) :
    probe.modules[probe.fetched[i].module].t = "str" =>
      StartsWith(probe.fetched[i].url,
                 StripSlash(probe.modules[probe.fetched[i].module].v))

\* C27 witness: after configure({apiBase: '/a'}) and configure({apiBase:
\* '/b'}) the first object has fetched a URL under /b and not under /a.
C27_Witness ==
  /\ probe.modules = <<JStr(<<"/", "a">>), JStr(<<"/", "b">>)>>
  /\ \E i \in 1..Len(probe.fetched) :
       /\ probe.fetched[i].module = 1
       /\ StartsWith(probe.fetched[i].url, <<"/", "b">>)
       /\ ~StartsWith(probe.fetched[i].url, <<"/", "a">>)

====
